---- MODULE Spec2Model ----
(***************************************************************************)
(* A small-step model of the ghost-lang tree-walking evaluator             *)
(* (internal/evaluator), its Environment chain (internal/object) and its   *)
(* call-stack Frame.  Every Go function evalX of the evaluator is one      *)
(* action; the Go call stack is the variable `stack` of activation         *)
(* records, and a Go `return v` pops the record and leaves v in `ret`.     *)
(***************************************************************************)
EXTENDS Integers, Sequences, FiniteSets, TLC

VARIABLES
    prog,      \* the *ast.Program handed to Eval: a sequence of statements
    stack,     \* Go call stack of the evaluator: activation records, top last
    ret,       \* the value the last finished activation returned
    envs,      \* every *object.Environment allocated so far: [Store, Outer]
    heap,      \* every *object.List / *object.String allocated so far
    Frame,     \* Evaluator.Frame: the chain of frames, root first
    Err,       \* Evaluator.Err
    panicked,  \* the Go runtime aborted the process (nil dereference, index out of range, panic())
    steps,     \* number of evaluation steps taken
    lexer,     \* the *lexer.Lexer a token loop drives: [Input, CurrPos, NextPos]
    tokens,    \* what the token loop got from Lexer.NextToken so far: [tok, err] each
    parser     \* the *Parser: [L, CurrToken, NextToken, Err] and the state of ParseProgram

vars == <<prog, stack, ret, envs, heap, Frame, Err, panicked, steps, lexer, tokens, parser>>

-----------------------------------------------------------------------------
(* Bounds of the model.                                                    *)

\* evaluation steps one program may take
MaxSteps == 400
\* largest integer literal that the generated programs use
MaxInt == 2
\* the longest list the indexing programs build
MaxLen == 3

-----------------------------------------------------------------------------
(* AST nodes (internal/parser/ast).  k is the Go type of the node; the     *)
(* other fields carry the names of the Go struct fields.                   *)

\* a nil ast.Node / ast.Expression (absent default value, placeholder argument, absent else)
NoNode == [k |-> "nil"]

IntE(n) == [k |-> "IntExpression", Value |-> n]
FloatE(n, d) == [k |-> "FloatExpression", Value |-> [n |-> n, d |-> d]]
BoolE(b) == [k |-> "BoolExpression", Value |-> b]
NullE == [k |-> "NullExpression"]
StrE(s) == [k |-> "StringExpression", Value |-> s]
ListE(es) == [k |-> "ListExpression", Value |-> es]
Id(x) == [k |-> "IdentifierExpression", Name |-> x]
Grp(e) == [k |-> "GroupedExpression", Expr |-> e]
VarInit(c, x, e) == [k |-> "VarInitializationExpression", IsConst |-> c, Name |-> Id(x), Value |-> e]
Var(x, e) == VarInit(FALSE, x, e)
Const(x, e) == VarInit(TRUE, x, e)
Asg(t, e) == [k |-> "VarAssignmentExpression", Name |-> t, Value |-> e]
Cmp(t, op, e) == [k |-> "CompoundAssignmentExpression", Name |-> t, Operator |-> op, Right |-> e]
Pre(op, e) == [k |-> "PrefixExpression", Operator |-> op, Value |-> e]
PreInc(op, e) == [k |-> "PrefixUnaryIncDecExpression", Operator |-> op, Right |-> e]
PostInc(op, e) == [k |-> "PostfixUnaryIncDecExpression", Operator |-> op, Left |-> e]
Inf(l, op, r) == [k |-> "InfixExpression", Left |-> l, Operator |-> op, Right |-> r]
Blk(ss) == [k |-> "BlockExpression", Statements |-> ss]
IfE(c, a, b) == [k |-> "IfExpression", Condition |-> c, Consequence |-> a, Alternative |-> b]
Call(f, args) == [k |-> "CallExpression", Function |-> f, Argument |-> args]
Idx(t, i) == [k |-> "IndexExpression", Target |-> t, Index |-> i]

ES(e) == [k |-> "ExpressionStatement", Expr |-> e]
For(i, c, u, b) == [k |-> "ForStatement", Initialization |-> i, Condition |-> c, Update |-> u, Body |-> b]
Param(x, d) == [Name |-> Id(x), DefaultValue |-> d]
Func(f, ps, b) == [k |-> "FunctionDeclarationStatement", Name |-> Id(f), Parameter |-> ps, Body |-> b]
Ret(e) == [k |-> "ReturnStatement", ReturnValue |-> e]

\* the node kinds that implement ast.Statement
StatementKinds == {"ExpressionStatement", "ForStatement", "FunctionDeclarationStatement", "ReturnStatement"}

-----------------------------------------------------------------------------
(* Runtime values (internal/object).  t is the Go type; Lists and Strings  *)
(* are pointers into `heap` because Set mutates them in place.             *)

\* a nil object.Object
Nil == [t |-> "nil"]
IntV(n) == [t |-> "Int", i |-> n]
BoolV(b) == [t |-> "Bool", b |-> b]
NullV == [t |-> "Null"]
FloatV(n, d) == [t |-> "Float", n |-> n, d |-> d]
Ref(t, r) == [t |-> t, ref |-> r]
FunctionV(name, ps, body, env) == [t |-> "Function", Name |-> name, Parameter |-> ps, Body |-> body, Env |-> env]
BuiltinV(name) == [t |-> "BuiltinFunction", Name |-> name]
ReturnValue(v) == [t |-> "ReturnValue", Value |-> v]

IsReturnValue(v) == v.t = "ReturnValue"

NoErr == [kind |-> "none"]
Error(kind, msg, frame) == [kind |-> kind, msg |-> msg, frame |-> frame]

-----------------------------------------------------------------------------
(* Results of a method of object.Object: a value (with the heap, because   *)
(* Add / Multiply / Index allocate), an error, or a Go runtime panic.      *)

OkV(v, H) == [st |-> "ok", v |-> v, H |-> H]
Fail(kind, msg) == [st |-> "err", kind |-> kind, msg |-> msg]
\* an error value built without a Frame (the Frame field stays nil)
FailNoFrame(kind, msg) == [st |-> "err0", kind |-> kind, msg |-> msg]
Panic == [st |-> "panic"]

InvalidOperation(op) == Fail("OperationError", <<"invalid operation", op>>)

\* &List{...} / &String{...}: a fresh heap cell
NewList(H, elems) == OkV(Ref("LIST", Len(H) + 1), Append(H, [t |-> "LIST", Elements |-> elems]))
NewString(H, bytes) == OkV(Ref("String", Len(H) + 1), Append(H, [t |-> "String", Value |-> bytes]))

\* Object.Type(); on a nil interface the call panics (the callers test for Nil first)
Type(v) == v.t

-----------------------------------------------------------------------------
(* float64 values are modelled as exact fractions n/d with d > 0.          *)

Abs(x) == IF x < 0 THEN -x ELSE x

RECURSIVE Gcd(_, _)
Gcd(a, b) == IF b = 0 THEN a ELSE Gcd(b, a % b)

Frac(n, d) ==
    LET g == Gcd(Abs(n), Abs(d))
        s == IF d < 0 THEN -1 ELSE 1
    IN FloatV((s * n) \div g, (s * d) \div g)

\* float64(i.Value), and a Float as it is
ToFloat(v) == IF v.t = "Int" THEN FloatV(v.i, 1) ELSE v

\* Go's % on integers truncates toward zero (the sign of the dividend); math.Mod does the same
GoRem(a, b) == LET r == Abs(a) % Abs(b) IN IF a < 0 THEN -r ELSE r

FloatArith(op, x, y) ==
    CASE op = "+" -> Frac(x.n * y.d + y.n * x.d, x.d * y.d)
      [] op = "-" -> Frac(x.n * y.d - y.n * x.d, x.d * y.d)
      [] op = "*" -> Frac(x.n * y.n, x.d * y.d)
      [] op = "/" -> Frac(x.n * y.d, x.d * y.n)
      [] op = "%" -> Frac(GoRem(x.n * y.d, y.n * x.d), x.d * y.d)

IntArith(op, a, b) ==
    CASE op = "+" -> a + b
      [] op = "-" -> a - b
      [] op = "*" -> a * b
      [] op = "%" -> GoRem(a, b)

NumCompare(op, x, y) ==
    LET l == x.n * y.d
        r == y.n * x.d
    IN CASE op = "==" -> l = r
         [] op = "!=" -> l # r
         [] op = "<" -> l < r
         [] op = ">" -> l > r
         [] op = "<=" -> l <= r
         [] op = ">=" -> l >= r

IsZero(v) == IF v.t = "Int" THEN v.i = 0 ELSE v.n = 0

ArithOps == {"+", "-", "*", "/", "%"}
OrderOps == {"<", ">", "<=", ">="}
EqOps == {"==", "!="}
LogicOps == {"&&", "||"}

-----------------------------------------------------------------------------
(* UTF-8: a String's Value is its byte sequence, as in Go.                 *)

Utf8(cp) ==
    IF cp < 128 THEN <<cp>>
    ELSE IF cp < 2048 THEN <<192 + (cp \div 64), 128 + (cp % 64)>>
    ELSE <<224 + (cp \div 4096), 128 + ((cp \div 64) % 64), 128 + (cp % 64)>>

IsCont(b) == b >= 128 /\ b < 192

\* []rune(s): an invalid byte decodes to U+FFFD and consumes one byte
RECURSIVE Runes(_)
Runes(bs) ==
    IF bs = <<>> THEN <<>>
    ELSE LET b == bs[1] IN
         IF b < 128 THEN <<b>> \o Runes(Tail(bs))
         ELSE IF b >= 194 /\ b < 224 /\ Len(bs) >= 2 /\ IsCont(bs[2])
              THEN <<(b - 192) * 64 + (bs[2] - 128)>> \o Runes(SubSeq(bs, 3, Len(bs)))
         ELSE IF b >= 224 /\ b < 240 /\ Len(bs) >= 3 /\ IsCont(bs[2]) /\ IsCont(bs[3])
              THEN <<(b - 224) * 4096 + (bs[2] - 128) * 64 + (bs[3] - 128)>> \o Runes(SubSeq(bs, 4, Len(bs)))
         ELSE <<65533>> \o Runes(Tail(bs))

RECURSIVE Repeat(_, _)
Repeat(s, n) == IF n <= 0 THEN <<>> ELSE s \o Repeat(s, n - 1)

-----------------------------------------------------------------------------
(* The binary methods of each Object variant.  a is the receiver (the left *)
(* operand), b the other operand, H the heap.                              *)

\* a zero divisor reported as an unsupported operand
DivisionByZeroAsOperation == Fail("OperationError", <<"invalid operation", "/">>)
DivisionByZero == Fail("MathError", <<"division by zero">>)

\* Int.Add ... Int.Or
IntBinary(op, a, b, H) ==
    CASE op \in {"+", "-"} ->
            (CASE b.t = "Int" -> OkV(IntV(IntArith(op, a.i, b.i)), H)
               [] b.t = "Float" -> OkV(FloatArith(op, ToFloat(a), b), H)
               [] OTHER -> InvalidOperation(op))
      [] op = "*" ->
            (CASE b.t = "Int" -> OkV(IntV(a.i * b.i), H)
               [] b.t = "Float" -> OkV(FloatArith(op, ToFloat(a), b), H)
               [] b.t = "String" ->
                    IF a.i < 0 THEN InvalidOperation(op)
                    ELSE NewString(H, Repeat(H[b.ref].Value, a.i))
               [] OTHER -> InvalidOperation(op))
      [] op = "/" ->
            IF b.t \in {"Int", "Float"}
            THEN IF IsZero(b) THEN DivisionByZero
                 ELSE OkV(FloatArith(op, ToFloat(a), ToFloat(b)), H)
            ELSE InvalidOperation(op)
      [] op = "%" ->
            (CASE b.t = "Int" ->
                    IF b.i = 0 THEN DivisionByZero ELSE OkV(IntV(GoRem(a.i, b.i)), H)
               [] b.t = "Float" ->
                    IF b.n = 0 THEN DivisionByZero ELSE OkV(FloatArith(op, ToFloat(a), b), H)
               [] OTHER -> InvalidOperation(op))
      [] op \in EqOps ->
            IF b.t \in {"Int", "Float"}
            THEN OkV(BoolV(NumCompare(op, ToFloat(a), ToFloat(b))), H)
            ELSE OkV(BoolV(op = "!="), H)
      [] op \in OrderOps ->
            IF b.t \in {"Int", "Float"}
            THEN OkV(BoolV(NumCompare(op, ToFloat(a), ToFloat(b))), H)
            ELSE InvalidOperation(op)
      [] OTHER -> InvalidOperation(op)

\* Float.Add ... Float.Or
FloatBinary(op, a, b, H) ==
    CASE op \in {"+", "-", "*"} ->
            IF b.t \in {"Int", "Float"} THEN OkV(FloatArith(op, a, ToFloat(b)), H)
            ELSE InvalidOperation(op)
      [] op \in {"/", "%"} ->
            IF b.t \in {"Int", "Float"}
            THEN IF IsZero(b) THEN DivisionByZero ELSE OkV(FloatArith(op, a, ToFloat(b)), H)
            ELSE InvalidOperation(op)
      [] op \in EqOps ->
            IF b.t \in {"Int", "Float"} THEN OkV(BoolV(NumCompare(op, a, ToFloat(b))), H)
            ELSE OkV(BoolV(op = "!="), H)
      [] op \in OrderOps ->
            IF b.t \in {"Int", "Float"} THEN OkV(BoolV(NumCompare(op, a, ToFloat(b))), H)
            ELSE InvalidOperation(op)
      [] OTHER -> InvalidOperation(op)

\* Bool.Add ... Bool.Or
BoolBinary(op, a, b, H) ==
    CASE op \in EqOps ->
            IF b.t = "Bool" THEN OkV(BoolV((a.b = b.b) = (op = "==")), H)
            ELSE OkV(BoolV(op = "!="), H)
      [] op = "&&" -> IF b.t = "Bool" THEN OkV(BoolV(a.b /\ b.b), H) ELSE InvalidOperation(op)
      [] op = "||" -> IF b.t = "Bool" THEN OkV(BoolV(a.b \/ b.b), H) ELSE InvalidOperation(op)
      [] OTHER -> InvalidOperation(op)

\* String.Add ... String.Or
StringBinary(op, a, b, H) ==
    CASE op = "+" ->
            IF b.t = "String" THEN NewString(H, H[a.ref].Value \o H[b.ref].Value)
            ELSE InvalidOperation(op)
      [] op = "*" ->
            IF b.t = "Int" /\ b.i >= 0 THEN NewString(H, Repeat(H[a.ref].Value, b.i))
            ELSE InvalidOperation(op)
      [] op \in EqOps ->
            IF b.t = "String" THEN OkV(BoolV((H[a.ref].Value = H[b.ref].Value) = (op = "==")), H)
            ELSE OkV(BoolV(op = "!="), H)
      [] OTHER -> InvalidOperation(op)

\* Function.Add ... Function.Or and BuiltinFunction.Add ... BuiltinFunction.Or:
\* only Equal / NotEqual succeed, and they compare the references
FunctionBinary(op, a, b, H) ==
    IF op \in EqOps THEN OkV(BoolV((a = b) = (op = "==")), H) ELSE InvalidOperation(op)

\* object.Null: equal to Null only, every other operation is unsupported
NullBinary(op, a, b, H) ==
    IF op \in EqOps THEN OkV(BoolV((b.t = "Null") = (op = "==")), H) ELSE InvalidOperation(op)

\* object.ReturnValue: a carrier, no operation is supported
ReturnValueBinary(op, a, b, H) ==
    IF op \in EqOps THEN OkV(BoolV(op = "!="), H) ELSE InvalidOperation(op)

RECURSIVE Binary(_, _, _, _)

\* List.Equal: same length and pairwise Equal elements, the first error wins
RECURSIVE ListEqual(_, _, _, _)
ListEqual(xs, ys, i, H) ==
    IF i > Len(xs) THEN OkV(BoolV(TRUE), H)
    ELSE LET r == Binary("==", xs[i], ys[i], H) IN
         IF r.st # "ok" THEN r
         ELSE IF ~r.v.b THEN OkV(BoolV(FALSE), H)
         ELSE ListEqual(xs, ys, i + 1, H)

\* List.Add ... List.Or
ListBinary(op, a, b, H) ==
    LET xs == H[a.ref].Elements IN
    CASE op = "+" ->
            IF b.t = "LIST"
            THEN LET ys == H[b.ref].Elements IN
                 IF Len(xs) > 0 /\ Len(ys) > 0
                 THEN IF xs[1] = Nil \/ ys[1] = Nil THEN Panic
                      ELSE IF Type(xs[1]) # Type(ys[1])
                      THEN Fail("OperationError", <<"cannot concatenate lists with different element types">>)
                      ELSE NewList(H, xs \o ys)
                 ELSE NewList(H, xs \o ys)
            ELSE InvalidOperation(op)
      [] op = "*" ->
            IF b.t = "Int"
            THEN IF b.i <= 0 THEN InvalidOperation(op)
                 ELSE IF Len(xs) = 0 THEN NewList(H, <<>>)
                 ELSE NewList(H, Repeat(xs, b.i))
            ELSE InvalidOperation(op)
      [] op \in EqOps ->
            LET eq == IF b.t = "LIST"
                      THEN IF Len(xs) # Len(H[b.ref].Elements) THEN OkV(BoolV(FALSE), H)
                           ELSE ListEqual(xs, H[b.ref].Elements, 1, H)
                      ELSE OkV(BoolV(FALSE), H)
            IN IF eq.st # "ok" \/ op = "==" THEN eq ELSE OkV(BoolV(~eq.v.b), H)
      [] OTHER -> InvalidOperation(op)

\* left.Add(right, ...) etc.: the method is looked up on the left operand;
\* calling a method on a nil interface value is a nil dereference
Binary(op, a, b, H) ==
    CASE a = Nil -> Panic
      [] a.t = "Int" -> IntBinary(op, a, b, H)
      [] a.t = "Float" -> FloatBinary(op, a, b, H)
      [] a.t = "Bool" -> BoolBinary(op, a, b, H)
      [] a.t = "String" -> StringBinary(op, a, b, H)
      [] a.t = "LIST" -> ListBinary(op, a, b, H)
      [] a.t \in {"Function", "BuiltinFunction"} -> FunctionBinary(op, a, b, H)
      [] a.t = "Null" -> NullBinary(op, a, b, H)
      [] a.t = "ReturnValue" -> ReturnValueBinary(op, a, b, H)

\* right.Negative / right.Not / right.BitNot of every Object variant
Unary(op, a, H) ==
    CASE a = Nil -> Panic
      [] op = "-" /\ a.t = "Int" -> OkV(IntV(-a.i), H)
      [] op = "-" /\ a.t = "Float" -> OkV(FloatV(-a.n, a.d), H)
      [] op = "~" /\ a.t = "Int" -> OkV(IntV(-a.i - 1), H)
      [] op = "!" /\ a.t = "Bool" -> OkV(BoolV(~a.b), H)
      [] OTHER -> InvalidOperation(op)

IndexOutOfRange == Fail("IndexError", <<"index out of range">>)

\* the position an index addresses: index + length when negative
\* an index taken as written, without the wraparound of negative indices
RealIndexAsWritten(i, length) == i

RealIndex(i, length) == IF i < 0 THEN length + i ELSE i

\* List.Index
ListIndex(l, idx, H) ==
    LET length == Len(H[l.ref].Elements)
        real == RealIndex(idx.i, length)
    IN IF real < 0 \/ real >= length THEN IndexOutOfRange
       ELSE OkV(H[l.ref].Elements[real + 1], H)

\* String.Index
StringIndex(s, idx, H) ==
    LET runes == Runes(H[s.ref].Value)
        length == Len(runes)
        real == RealIndex(idx.i, length)
    IN IF real < 0 \/ real >= length THEN IndexOutOfRange
       ELSE NewString(H, Utf8(runes[real + 1]))

\* target.Index(intIdx, ...)
Index(target, idx, H) ==
    CASE target = Nil -> Panic
      [] target.t = "LIST" -> ListIndex(target, idx, H)
      [] target.t = "String" -> StringIndex(target, idx, H)
      [] OTHER -> Fail("TypeError", <<"index expression not supported for this type">>)

\* a List.Set that stores a value of any type
ListSetTypeAny(value, first) == TRUE
\* the element-type test of List.Set
ListSetTypeOk(value, first) == Type(value) = Type(first)

\* List.Set
ListSet(l, idx, value, H) ==
    LET elems == H[l.ref].Elements
        length == Len(elems)
        real == RealIndex(idx.i, length)
    IN IF real < 0 \/ real >= length THEN IndexOutOfRange
       ELSE IF value = Nil \/ elems[1] = Nil THEN Panic
       ELSE IF ~ListSetTypeOk(value, elems[1])
       THEN Fail("TypeError", <<"list elements must have consistent types">>)
       ELSE OkV(Nil, [H EXCEPT ![l.ref].Elements[real + 1] = value])

\* String.Set
StringSet(s, idx, value, H) ==
    LET bytes == H[s.ref].Value
        length == Len(bytes)
        real == RealIndex(idx.i, length)
    IN IF real < 0 \/ real >= length THEN IndexOutOfRange
       ELSE IF value.t = "String"
       THEN OkV(Nil, [H EXCEPT ![s.ref].Value =
                SubSeq(bytes, 1, real) \o H[value.ref].Value \o SubSeq(bytes, real + 2, length)])
       ELSE Fail("TypeError", <<"invalid assignment">>)

\* target.(indexable): the types that have a Set method
IsIndexable(v) == v.t \in {"LIST", "String"}

\* idxable.Set(index, value, ...)
IndexableSet(target, idx, value, H) ==
    IF target.t = "LIST" THEN ListSet(target, idx, value, H) ELSE StringSet(target, idx, value, H)

-----------------------------------------------------------------------------
(* object.Environment.  envs[e] is one Environment; Outer = 0 is nil.      *)

Symbol(name, value, isConst) == [Name |-> name, Value |-> value, IsConst |-> isConst]

EmptyStore == [x \in {} |-> Nil]
NewEnvironment(outer) == [Store |-> EmptyStore, Outer |-> outer]

\* Environment.Get: the nearest scope, from e outward, that defines name
RECURSIVE Get(_, _, _)
Get(E, e, name) ==
    IF name \in DOMAIN E[e].Store THEN [ok |-> TRUE, sym |-> E[e].Store[name], at |-> e]
    ELSE IF E[e].Outer # 0 THEN Get(E, E[e].Outer, name)
    ELSE [ok |-> FALSE]

\* a Set that keeps a binding the scope already has
SetIfAbsent(E, e, name, sym) == [E EXCEPT ![e].Store = @ @@ (name :> sym)]

\* Environment.Set: writes the scope e itself
Set(E, e, name, sym) == [E EXCEPT ![e].Store = (name :> sym) @@ @]

\* an Assign that writes the current scope instead of the scope that defines name
AssignCurrentScope(E, e, name, sym) == Set(E, e, name, sym)

\* Environment.Assign: replaces the binding of the nearest scope that defines name
RECURSIVE Assign(_, _, _, _)
Assign(E, e, name, sym) ==
    IF name \in DOMAIN E[e].Store THEN [E EXCEPT ![e].Store[name] = sym]
    ELSE IF E[e].Outer # 0 THEN Assign(E, E[e].Outer, name, sym)
    ELSE E

\* Environment.Exists: the scope e only
Exists(E, e, name) == name \in DOMAIN E[e].Store

\* object.Builtins, bound as constants in the root environment by the runner
Builtins == {"print", "println", "len"}
BuiltinParameter(name) == <<"a">>
\* BuiltinFunction.DefaultValue is never set: the slice is nil
BuiltinDefaultValue(name) == <<>>

RootEnvironment ==
    [Store |-> [n \in Builtins |-> Symbol(n, BuiltinV(n), TRUE)], Outer |-> 0]

\* BuiltinFunction.Fn of print, println and len
BuiltinFn(name, args, H) ==
    IF name \in {"print", "println"}
    THEN IF args[1] = Nil THEN Panic ELSE OkV(NullV, H)
    ELSE CASE args[1].t = "String" -> OkV(IntV(Len(Runes(H[args[1].ref].Value))), H)
           [] args[1].t = "LIST" -> OkV(IntV(Len(H[args[1].ref].Elements)), H)
           [] OTHER -> Fail("TypeError", <<"len() argument must be a sequence or collection">>)

-----------------------------------------------------------------------------
(* The evaluator as a machine.  An activation record is one running Go     *)
(* call e.Eval(node, env) or e.evalWithReturnValue(node, env); pc says     *)
(* where in the Go function the call is, loc holds its local variables.    *)

Act(fn, node, env, pc, loc) == [fn |-> fn, node |-> node, env |-> env, pc |-> pc, loc |-> loc]

NoLoc == [none |-> TRUE]

\* Eval, case *ast.GroupedExpression: return e.Eval(n.Expr, env)
RECURSIVE Strip(_)
Strip(n) == IF n.k = "GroupedExpression" THEN Strip(n.Expr) ELSE n

\* a call e.Eval(node, env): the type switch selects the function by the node's type
EvalAct(node, env) == Act("Eval", Strip(node), env, 0, NoLoc)
\* a call e.evalWithReturnValue(node, env)
WithReturnValueAct(node, env) == Act("evalWithReturnValue", node, env, 0, NoLoc)

Running == stack # <<>> /\ ~panicked /\ steps < MaxSteps
Top == stack[Len(stack)]
Rest == SubSeq(stack, 1, Len(stack) - 1)

\* the running activation is Eval on a node of type k
AtNode(k) == Running /\ Top.fn = "Eval" /\ Top.node.k = k

\* one step of the machine
Step(stk, r, E, H, F, er) ==
    /\ stack' = stk
    /\ ret' = r
    /\ envs' = E
    /\ heap' = H
    /\ Frame' = F
    /\ Err' = er
    /\ steps' = steps + 1
    /\ UNCHANGED <<prog, panicked, lexer, tokens, parser>>

\* the stack with the running activation moved to pc / loc
Goto(pc, loc) == Append(Rest, Act(Top.fn, Top.node, Top.env, pc, loc))

\* the running activation calls act and will resume at pc
Invoke(pc, loc, act) == Step(Append(Goto(pc, loc), act), ret, envs, heap, Frame, Err)

\* return v
Return(v) == Step(Rest, v, envs, heap, Frame, Err)

\* e.Err = &kind{Frame: e.Frame, Message: msg}; return nil
Raise(kind, msg) == Step(Rest, Nil, envs, heap, Frame, Error(kind, msg, Frame))

\* Error() of an error value: the header, one block per frame of the chain with the
\* outermost frame first (the loop walks from err.Frame to the root and prepends), then the
\* line of the error kind and message; positions and source excerpts are left out
Traceback(err) ==
    <<<<"Traceback:">>>>
        \o [i \in 1 .. Len(err.frame) |-> <<"File", "in">> \o err.frame[i]]
        \o <<<<err.kind>> \o err.msg>>

\* the Go runtime panics: the process aborts
Abort ==
    /\ panicked' = TRUE
    /\ steps' = steps + 1
    /\ UNCHANGED <<prog, stack, ret, envs, heap, Frame, Err, lexer, tokens, parser>>

\* ret, err := method(...); if err != nil { e.Err = err; return nil }; return ret
Finish(out) ==
    CASE out.st = "ok" -> Step(Rest, out.v, envs, out.H, Frame, Err)
      [] out.st = "err" -> Raise(out.kind, out.msg)
      [] out.st = "err0" -> Step(Rest, Nil, envs, heap, Frame, Error(out.kind, out.msg, <<>>))
      [] out.st = "panic" -> Abort

\* if e.Err != nil { return nil } after a call returned, else the continuation
Failed == Err # NoErr

-----------------------------------------------------------------------------
(* Statements.                                                             *)

\* Eval, default case: panic("unknown node type")
evalUnknownNode ==
    /\ AtNode("nil")
    /\ Abort

evalProgram ==
    /\ AtNode("Program")
    /\ LET i == Top.pc
           stmts == Top.node.Statements
       IN IF i > 0 /\ Failed THEN Return(Nil)
          ELSE IF i < Len(stmts) THEN Invoke(i + 1, NoLoc, EvalAct(stmts[i + 1], Top.env))
          ELSE Return(Nil)

\* a for statement that leaves after the first update (an if, not a loop)
evalForStatementOnce ==
    /\ AtNode("ForStatement")
    /\ LET n == Top.node
           forEnv == IF Top.pc = 0 THEN Len(envs) + 1 ELSE Top.loc.forEnv
           loc == [forEnv |-> forEnv]
       IN CASE Top.pc = 0 ->
                 Step(Append(Goto(1, loc), EvalAct(n.Initialization, forEnv)),
                      ret, Append(envs, NewEnvironment(Top.env)), heap, Frame, Err)
            [] Top.pc = 1 ->
                 IF Failed THEN Return(Nil)
                 ELSE Invoke(2, loc, EvalAct(n.Condition, forEnv))
            [] Top.pc = 2 ->
                 IF Failed THEN Return(Nil)
                 ELSE IF ret.t # "Bool" THEN Raise("TypeError", <<"non-bool condition in for loop">>)
                 ELSE IF ret.b THEN Invoke(3, loc, EvalAct(n.Body, forEnv))
                 ELSE Return(Nil)
            [] Top.pc = 3 ->
                 IF Failed THEN Return(Nil)
                 ELSE IF IsReturnValue(ret) THEN Return(ret)
                 ELSE Invoke(4, loc, EvalAct(n.Update, forEnv))
            [] Top.pc = 4 -> Return(Nil)

evalForStatement ==
    /\ AtNode("ForStatement")
    /\ LET n == Top.node
           forEnv == IF Top.pc = 0 THEN Len(envs) + 1 ELSE Top.loc.forEnv
           loc == [forEnv |-> forEnv]
       IN CASE Top.pc = 0 ->
                 Step(Append(Goto(1, loc), EvalAct(n.Initialization, forEnv)),
                      ret, Append(envs, NewEnvironment(Top.env)), heap, Frame, Err)
            [] Top.pc \in {1, 4} ->
                 IF Failed THEN Return(Nil)
                 ELSE Invoke(2, loc, EvalAct(n.Condition, forEnv))
            [] Top.pc = 2 ->
                 IF Failed THEN Return(Nil)
                 ELSE IF ret.t # "Bool" THEN Raise("TypeError", <<"non-bool condition in for loop">>)
                 ELSE IF ret.b THEN Invoke(3, loc, EvalAct(n.Body, forEnv))
                 ELSE Return(Nil)
            [] Top.pc = 3 ->
                 IF Failed THEN Return(Nil)
                 ELSE IF IsReturnValue(ret) THEN Return(ret)
                 ELSE Invoke(4, loc, EvalAct(n.Update, forEnv))

evalFunctionDeclarationStatement ==
    /\ AtNode("FunctionDeclarationStatement")
    /\ LET n == Top.node
           funcName == n.Name.Name
           fn == FunctionV(funcName, n.Parameter, n.Body, Top.env)
       IN IF Get(envs, Top.env, funcName).ok
          THEN Raise("VariableError", <<"function already defined", funcName>>)
          ELSE Step(Rest, Nil, Set(envs, Top.env, funcName, Symbol(funcName, fn, TRUE)),
                    heap, Frame, Err)

\* e.Frame.Parent == nil: the root frame is current
AtRootFrame(F) == Len(F) = 1

evalReturnStatement ==
    /\ AtNode("ReturnStatement")
    /\ CASE Top.pc = 0 ->
              IF AtRootFrame(Frame)
              THEN Raise("SyntaxError", <<"return statement is only allowed inside functions">>)
              ELSE Invoke(1, NoLoc, EvalAct(Top.node.ReturnValue, Top.env))
         [] Top.pc = 1 ->
              IF Failed THEN Return(Nil) ELSE Return(ReturnValue(ret))

evalExpressionStatement ==
    /\ AtNode("ExpressionStatement")
    /\ CASE Top.pc = 0 -> Invoke(1, NoLoc, EvalAct(Top.node.Expr, Top.env))
         [] Top.pc = 1 ->
              IF Failed THEN Return(Nil)
              ELSE IF IsReturnValue(ret) THEN Return(ret)
              ELSE Return(Nil)

-----------------------------------------------------------------------------
(* Literals and identifiers.                                               *)

evalIntExpression ==
    /\ AtNode("IntExpression")
    /\ Return(IntV(Top.node.Value))

evalFloatExpression ==
    /\ AtNode("FloatExpression")
    /\ Return(FloatV(Top.node.Value.n, Top.node.Value.d))

evalBooleanExpression ==
    /\ AtNode("BoolExpression")
    /\ Return(BoolV(Top.node.Value))

evalNullExpression ==
    /\ AtNode("NullExpression")
    /\ Return(NullV)

evalStringExpression ==
    /\ AtNode("StringExpression")
    /\ Finish(NewString(heap, Top.node.Value))

\* the element-type test of a list literal
ElementTypeOk(element, firstType) == Type(element) = firstType

evalListExpression ==
    /\ AtNode("ListExpression")
    /\ LET es == Top.node.Value
           i == Top.pc
           elements == IF i = 0 THEN <<>> ELSE Top.loc.elements
       IN IF i = 0
          THEN IF es = <<>> THEN Finish(NewList(heap, <<>>))
               ELSE Invoke(1, [elements |-> <<>>], EvalAct(es[1], Top.env))
          ELSE IF Failed THEN Return(Nil)
          ELSE IF ret = Nil THEN Abort
          ELSE IF i > 1 /\ ~ElementTypeOk(ret, Type(elements[1]))
          THEN Raise("TypeError", <<"list elements must have consistent types">>)
          ELSE IF i < Len(es)
          THEN Invoke(i + 1, [elements |-> Append(elements, ret)], EvalAct(es[i + 1], Top.env))
          ELSE Finish(NewList(heap, Append(elements, ret)))

evalIdentifierExpression ==
    /\ AtNode("IdentifierExpression")
    /\ LET varName == Top.node.Name
           val == Get(envs, Top.env, varName)
       IN IF ~val.ok THEN Raise("VariableError", <<"undefined variable", varName>>)
          ELSE Return(val.sym.Value)

evalVarInitializationExpression ==
    /\ AtNode("VarInitializationExpression")
    /\ LET n == Top.node
           varName == n.Name.Name
       IN CASE Top.pc = 0 ->
                 IF Exists(envs, Top.env, varName)
                 THEN Raise("VariableError", <<"variable already defined", varName>>)
                 ELSE Invoke(1, NoLoc, EvalAct(n.Value, Top.env))
            [] Top.pc = 1 ->
                 IF Failed THEN Return(Nil)
                 ELSE Step(Rest, ret, Set(envs, Top.env, varName, Symbol(varName, ret, n.IsConst)),
                           heap, Frame, Err)

-----------------------------------------------------------------------------
(* Assignment, operators.                                                  *)

NoError == [st |-> "ok"]

UndefinedVariable(name) == Fail("VariableError", <<"undefined variable", name>>)
CannotRedefineConstant(name) == Fail("VariableError", <<"cannot redefine constant", name>>)
InvalidVariableNameType == Fail("TypeError", <<"invalid variable name type">>)
IndexMustBeInteger == Fail("TypeError", <<"index must be integer">>)
NotIndexable == Fail("TypeError", <<"index expression not supported for this type">>)

\* the checks every assignment form makes on an identifier target
checkIdentifierTarget(E, env, name) ==
    LET s == Get(E, env, name) IN
    IF ~s.ok THEN UndefinedVariable(name)
    ELSE IF s.sym.IsConst THEN CannotRedefineConstant(name)
    ELSE NoError

RECURSIVE checkIndexTargetConst(_, _, _)
checkIndexTargetConst(E, env, target) ==
    CASE target.k = "IdentifierExpression" -> checkIdentifierTarget(E, env, target.Name)
      [] target.k = "IndexExpression" -> checkIndexTargetConst(E, env, target.Target)
      [] OTHER -> NoError

\* the switch of evalInfixOperator: the method of the left operand
evalInfixOperator(op, left, right, H) ==
    IF op \in ArithOps \cup OrderOps \cup EqOps \cup LogicOps
    THEN Binary(op, left, right, H)
    ELSE FailNoFrame("OperationError", <<"invalid operation", op>>)

\* the switch of evalPrefixOperator
evalPrefixOperator(op, right, H) ==
    IF op \in {"-", "!", "~"} THEN Unary(op, right, H)
    ELSE FailNoFrame("OperationError", <<"invalid operation", op>>)

\* Operator.Literal[:len-1] of a compound assignment operator
BaseOperator(op) ==
    CASE op = "+=" -> "+" [] op = "-=" -> "-" [] op = "*=" -> "*"
      [] op = "/=" -> "/" [] op = "%=" -> "%"

\* value := evalInfixOperator(l op r); idxable.Set(index, value); return value (or the old value l)
SetIndexed(target, index, op, l, r, returnOld) ==
    LET out == evalInfixOperator(op, l, r, heap) IN
    IF out.st # "ok" THEN Finish(out)
    ELSE LET s == IndexableSet(target, index, out.v, out.H) IN
         IF s.st # "ok" THEN Finish(s)
         ELSE Step(Rest, IF returnOld THEN l ELSE out.v, envs, s.H, Frame, Err)

\* target and index of an indexed assignment target, evaluated and checked (pc 0, 2, 3);
\* next is the expression evaluated after the checks
IndexTarget(indexExpr, next) ==
    CASE Top.pc = 0 ->
            LET err == checkIndexTargetConst(envs, Top.env, indexExpr.Target) IN
            IF err.st # "ok" THEN Finish(err)
            ELSE Invoke(2, NoLoc, EvalAct(indexExpr.Target, Top.env))
      [] Top.pc = 2 ->
            IF Failed THEN Return(Nil)
            ELSE Invoke(3, [target |-> ret], EvalAct(indexExpr.Index, Top.env))
      [] Top.pc = 3 ->
            IF Failed THEN Return(Nil)
            ELSE IF ret.t # "Int" THEN Finish(IndexMustBeInteger)
            ELSE IF ~IsIndexable(Top.loc.target) THEN Finish(NotIndexable)
            ELSE Invoke(4, [target |-> Top.loc.target, index |-> ret], EvalAct(next, Top.env))

evalVarAssignmentExpression ==
    /\ AtNode("VarAssignmentExpression")
    /\ LET n == Top.node IN
       CASE n.Name.k = "IdentifierExpression" ->
              LET varName == n.Name.Name IN
              IF Top.pc = 0
              THEN LET err == checkIdentifierTarget(envs, Top.env, varName) IN
                   IF err.st # "ok" THEN Finish(err)
                   ELSE Invoke(1, NoLoc, EvalAct(n.Value, Top.env))
              ELSE IF Failed THEN Return(Nil)
              ELSE Step(Rest, ret, Assign(envs, Top.env, varName, Symbol(varName, ret, FALSE)),
                        heap, Frame, Err)
         [] n.Name.k = "IndexExpression" ->
              IF Top.pc < 4 THEN IndexTarget(n.Name, n.Value)
              ELSE IF Failed THEN Return(Nil)
              ELSE LET s == IndexableSet(Top.loc.target, Top.loc.index, ret, heap) IN
                   IF s.st # "ok" THEN Finish(s)
                   ELSE Step(Rest, ret, envs, s.H, Frame, Err)
         [] OTHER -> Finish(InvalidVariableNameType)

evalCompoundAssignmentExpression ==
    /\ AtNode("CompoundAssignmentExpression")
    /\ LET n == Top.node
           op == BaseOperator(n.Operator)
       IN
       CASE n.Name.k = "IdentifierExpression" ->
              LET varName == n.Name.Name IN
              IF Top.pc = 0
              THEN LET err == checkIdentifierTarget(envs, Top.env, varName) IN
                   IF err.st # "ok" THEN Finish(err)
                   ELSE Invoke(1, [sym |-> Get(envs, Top.env, varName).sym],
                               EvalAct(n.Right, Top.env))
              ELSE IF Failed THEN Return(Nil)
              ELSE LET out == evalInfixOperator(op, Top.loc.sym.Value, ret, heap) IN
                   IF out.st # "ok" THEN Finish(out)
                   ELSE Step(Rest, out.v,
                             Assign(envs, Top.env, varName, Symbol(varName, out.v, FALSE)),
                             out.H, Frame, Err)
         [] n.Name.k = "IndexExpression" ->
              IF Top.pc < 4 THEN IndexTarget(n.Name, n.Right)
              ELSE IF Failed THEN Return(Nil)
              ELSE IF Top.pc = 4
              THEN Invoke(5, [target |-> Top.loc.target, index |-> Top.loc.index, right |-> ret],
                          EvalAct(n.Name, Top.env))
              ELSE SetIndexed(Top.loc.target, Top.loc.index, op, ret, Top.loc.right, FALSE)
         [] OTHER -> Finish(InvalidVariableNameType)

\* the environment write that ends ++ / -- on an identifier
IncDecWrite(E, env, name, sym) == Set(E, env, name, sym)

\* the common body of evalPrefixUnaryIncDecExpression and evalPostfixUnaryIncDecExpression
IncDec(operand, returnOld) ==
    LET op == IF Top.node.Operator = "++" THEN "+" ELSE "-" IN
    CASE operand.k = "IdentifierExpression" ->
           LET name == operand.Name IN
           IF Top.pc = 0
           THEN LET err == checkIdentifierTarget(envs, Top.env, name) IN
                IF err.st # "ok" THEN Finish(err)
                ELSE Invoke(1, NoLoc, EvalAct(operand, Top.env))
           ELSE IF Failed THEN Return(Nil)
           ELSE LET out == evalInfixOperator(op, ret, IntV(1), heap) IN
                IF out.st # "ok" THEN Finish(out)
                ELSE Step(Rest, IF returnOld THEN ret ELSE out.v,
                          IncDecWrite(envs, Top.env, name, Symbol(name, out.v, FALSE)),
                          out.H, Frame, Err)
      [] operand.k = "IndexExpression" ->
           IF Top.pc < 4 THEN IndexTarget(operand, operand)
           ELSE IF Failed THEN Return(Nil)
           ELSE SetIndexed(Top.loc.target, Top.loc.index, op, ret, IntV(1), returnOld)
      [] OTHER -> Finish(InvalidVariableNameType)

evalPrefixUnaryIncDecExpression ==
    /\ AtNode("PrefixUnaryIncDecExpression")
    /\ IncDec(Top.node.Right, FALSE)

evalPostfixUnaryIncDecExpression ==
    /\ AtNode("PostfixUnaryIncDecExpression")
    /\ IncDec(Top.node.Left, TRUE)

evalPrefixExpression ==
    /\ AtNode("PrefixExpression")
    /\ IF Top.pc = 0 THEN Invoke(1, NoLoc, EvalAct(Top.node.Value, Top.env))
       ELSE IF Failed THEN Return(Nil)
       ELSE Finish(evalPrefixOperator(Top.node.Operator, ret, heap))

\* evalInfixExpression without the two short-circuit returns
evalInfixExpressionEager ==
    /\ AtNode("InfixExpression")
    /\ LET n == Top.node IN
       CASE Top.pc = 0 -> Invoke(1, NoLoc, EvalAct(n.Left, Top.env))
         [] Top.pc = 1 ->
              IF Failed THEN Return(Nil)
              ELSE IF n.Operator \in LogicOps /\ ret.t # "Bool" THEN Finish(InvalidOperation(n.Operator))
              ELSE Invoke(2, [left |-> ret], EvalAct(n.Right, Top.env))
         [] Top.pc = 2 ->
              IF Failed THEN Return(Nil)
              ELSE Finish(evalInfixOperator(n.Operator, Top.loc.left, ret, heap))

evalInfixExpression ==
    /\ AtNode("InfixExpression")
    /\ LET n == Top.node IN
       CASE Top.pc = 0 -> Invoke(1, NoLoc, EvalAct(n.Left, Top.env))
         [] Top.pc = 1 ->
              IF Failed THEN Return(Nil)
              ELSE IF n.Operator \in LogicOps /\ ret.t # "Bool" THEN Finish(InvalidOperation(n.Operator))
              ELSE IF n.Operator = "&&" /\ ~ret.b THEN Return(BoolV(FALSE))
              ELSE IF n.Operator = "||" /\ ret.b THEN Return(BoolV(TRUE))
              ELSE Invoke(2, [left |-> ret], EvalAct(n.Right, Top.env))
         [] Top.pc = 2 ->
              IF Failed THEN Return(Nil)
              ELSE Finish(evalInfixOperator(n.Operator, Top.loc.left, ret, heap))

evalIndexExpression ==
    /\ AtNode("IndexExpression")
    /\ LET n == Top.node IN
       CASE Top.pc = 0 -> Invoke(1, NoLoc, EvalAct(n.Target, Top.env))
         [] Top.pc = 1 ->
              IF Failed THEN Return(Nil)
              ELSE Invoke(2, [target |-> ret], EvalAct(n.Index, Top.env))
         [] Top.pc = 2 ->
              IF Failed THEN Return(Nil)
              ELSE IF ret.t # "Int" THEN Finish(IndexMustBeInteger)
              ELSE Finish(Index(Top.loc.target, ret, heap))

-----------------------------------------------------------------------------
(* Blocks, if, calls.                                                      *)

evalWithReturnValue ==
    /\ Running
    /\ Top.fn = "evalWithReturnValue"
    /\ LET n == Top.node IN
       IF Top.pc = 0
       THEN CASE n.k = "ExpressionStatement" -> Invoke(1, NoLoc, EvalAct(n.Expr, Top.env))
              [] n.k = "ReturnStatement" -> Invoke(1, NoLoc, EvalAct(n.ReturnValue, Top.env))
              [] n.k = "nil" -> Return(Nil)
              [] OTHER -> Invoke(1, NoLoc, EvalAct(n, Top.env))
       ELSE IF Failed THEN Return(Nil)
       ELSE CASE n.k = "ExpressionStatement" -> Return(ret)
              [] n.k = "ReturnStatement" -> Return(ReturnValue(ret))
              [] n.k \in StatementKinds \ {"ExpressionStatement", "ReturnStatement"} ->
                    IF IsReturnValue(ret) THEN Return(ret) ELSE Return(NullV)
              [] OTHER -> Return(ret)

evalBlockExpression ==
    /\ AtNode("BlockExpression")
    /\ LET stmts == Top.node.Statements
           i == Top.pc
           blockEnv == IF i = 0 THEN Len(envs) + 1 ELSE Top.loc.blockEnv
           loc == [blockEnv |-> blockEnv]
       IN IF i = 0
          THEN IF stmts = <<>>
               THEN Step(Rest, Nil, Append(envs, NewEnvironment(Top.env)), heap, Frame, Err)
               ELSE Step(Append(Goto(1, loc), WithReturnValueAct(stmts[1], blockEnv)),
                         ret, Append(envs, NewEnvironment(Top.env)), heap, Frame, Err)
          ELSE IF IsReturnValue(ret) THEN Return(ret)
          ELSE IF i < Len(stmts)
          THEN Invoke(i + 1, loc, WithReturnValueAct(stmts[i + 1], blockEnv))
          ELSE Return(ret)

evalIfExpression ==
    /\ AtNode("IfExpression")
    /\ LET n == Top.node
           ifEnv == Len(envs) + 1
           E == Append(envs, NewEnvironment(Top.env))
       IN CASE Top.pc = 0 -> Invoke(1, NoLoc, EvalAct(n.Condition, Top.env))
            [] Top.pc = 1 ->
                 IF Failed THEN Return(Nil)
                 ELSE IF ret.t # "Bool"
                 THEN Raise("TypeError", <<"non-bool condition in if expression">>)
                 ELSE IF ret.b
                 THEN Step(Append(Goto(2, NoLoc), WithReturnValueAct(n.Consequence, ifEnv)),
                           ret, E, heap, Frame, Err)
                 ELSE IF n.Alternative # NoNode
                 THEN Step(Append(Goto(2, NoLoc), WithReturnValueAct(n.Alternative, ifEnv)),
                           ret, E, heap, Frame, Err)
                 ELSE Step(Rest, NullV, E, heap, Frame, Err)
            [] Top.pc = 2 -> Return(ret)

\* len(fn.Parameter)
ParamLen(fn) ==
    IF fn.t = "Function" THEN Len(fn.Parameter) ELSE Len(BuiltinParameter(fn.Name))

\* the number of parameters that have a default value
DefaultLen(fn) ==
    IF fn.t = "Function"
    THEN Cardinality({i \in DOMAIN fn.Parameter : fn.Parameter[i].DefaultValue # NoNode})
    ELSE Cardinality({i \in DOMAIN BuiltinDefaultValue(fn.Name) : BuiltinDefaultValue(fn.Name)[i] # NoNode})

\* the number of arguments written at the call: placeholders do not count
ArgLen(args) == Cardinality({i \in DOMAIN args : args[i] # NoNode})

\* an arity check that tests the upper limit only
ArityUpperOnly(fn, args) == ArgLen(args) <= ParamLen(fn)

ArityOk(fn, args) ==
    LET least == ParamLen(fn) - DefaultLen(fn) IN
    least <= ArgLen(args) /\ ArgLen(args) <= ParamLen(fn)

ArityError(fn, args) ==
    LET p == ToString(ParamLen(fn))
        least == ParamLen(fn) - DefaultLen(fn)
        got == ToString(ArgLen(args))
    IN IF DefaultLen(fn) = 0 THEN Fail("ArgumentError", <<"expected parameters", p, got>>)
       ELSE IF least = 1 THEN Fail("ArgumentError", <<"expected between 1 parameter and", p, got>>)
       ELSE Fail("ArgumentError", <<"expected between", ToString(least), p, got>>)

\* the slice the default value of parameter i is read from
DefaultValues(fn) ==
    IF fn.t = "Function" THEN [i \in DOMAIN fn.Parameter |-> fn.Parameter[i].DefaultValue]
    ELSE BuiltinDefaultValue(fn.Name)

\* dynamic scoping: the call's scope hangs under the caller's scope
FuncEnvOuterCaller(fn, callerEnv) == callerEnv
\* funcEnv.Outer: the environment captured at the declaration
FuncEnvOuter(fn, callerEnv) == fn.Env

\* the Store of funcEnv after the parameter loop: each name holds its last parameter's argument
ParameterStore(fn, argument) ==
    LET names == {fn.Parameter[i].Name.Name : i \in DOMAIN fn.Parameter}
        last(x) == CHOOSE i \in DOMAIN fn.Parameter :
                      /\ fn.Parameter[i].Name.Name = x
                      /\ \A j \in DOMAIN fn.Parameter : fn.Parameter[j].Name.Name = x => j <= i
    IN [x \in names |-> Symbol(x, argument[last(x)], FALSE)]

\* e.Frame = &frame.Frame{FuncName: name, Parent: e.Frame}
PushFrame(F, name) == Append(F, name)
\* e.Frame = e.Frame.Parent
PopFrame(F) == SubSeq(F, 1, Len(F) - 1)

\* the arguments are complete: run the function
Apply(loc) ==
    LET fn == loc.fn IN
    IF fn.t = "Function"
    THEN LET funcEnv == Len(envs) + 1
             E == Append(envs, [Store |-> ParameterStore(fn, loc.argument),
                                Outer |-> FuncEnvOuter(fn, Top.env)])
         IN Step(Append(Goto(3, loc), WithReturnValueAct(fn.Body, funcEnv)),
                 ret, E, heap, PushFrame(Frame, <<"function", fn.Name>>), Err)
    ELSE LET F == PushFrame(Frame, <<"builtin", fn.Name>>)
             out == BuiltinFn(fn.Name, loc.argument, heap)
         IN CASE out.st = "ok" -> Step(Rest, out.v, envs, out.H, PopFrame(F), Err)
              [] out.st = "err" -> Step(Rest, Nil, envs, heap, F, Error(out.kind, out.msg, F))
              [] out.st = "panic" -> Abort

\* the two argument loops: the next argument or default value to evaluate, or the call
NextArgument(loc) ==
    LET args == Top.node.Argument
        k == Len(loc.argument) + 1
        defaults == DefaultValues(loc.fn)
        next == [loc EXCEPT !.j = @ + 1]
        default == IF k \in DOMAIN defaults
                   THEN Invoke(2, next, EvalAct(defaults[k], Top.env))
                   ELSE Abort
    IN IF loc.j < Len(args)
       THEN IF args[loc.j + 1] = NoNode THEN default
            ELSE Invoke(2, next, EvalAct(args[loc.j + 1], Top.env))
       ELSE IF Len(loc.argument) < ParamLen(loc.fn) THEN default
       ELSE Apply(loc)

evalCallExpression ==
    /\ AtNode("CallExpression")
    /\ LET n == Top.node IN
       CASE Top.pc = 0 -> Invoke(1, [frame0 |-> Frame], EvalAct(n.Function, Top.env))
         [] Top.pc = 1 ->
              IF Failed THEN Return(Nil)
              ELSE IF ret.t \notin {"Function", "BuiltinFunction"}
              THEN Raise("TypeError", <<"the value is not a function and cannot be called">>)
              ELSE IF ~ArityOk(ret, n.Argument) THEN Finish(ArityError(ret, n.Argument))
              ELSE NextArgument([fn |-> ret, argument |-> <<>>, j |-> 0, frame0 |-> Top.loc.frame0])
         [] Top.pc = 2 ->
              IF Failed THEN Return(Nil)
              ELSE NextArgument([Top.loc EXCEPT !.argument = Append(@, ret)])
         [] Top.pc = 3 ->
              IF Failed THEN Return(Nil)
              ELSE Step(Rest, IF IsReturnValue(ret) THEN ret.Value ELSE ret,
                        envs, heap, PopFrame(Frame), Err)

-----------------------------------------------------------------------------
(* The programs the evaluator is run on: ASTs the parser produces.         *)

\* the integer literals the programs use
Ints == 0 .. MaxInt

\* "a" and "b"
StrA == <<97>>
StrB == <<98>>

\* operands of every runtime type
Operands ==
    {IntE(n) : n \in Ints}
        \cup {FloatE(1, 2), BoolE(TRUE), BoolE(FALSE), StrE(StrA), NullE, ListE(<<IntE(1)>>)}

\* var r = a op b;
ArithmeticPrograms ==
    {<<ES(Var("r", Inf(a, op, b)))>> :
        a \in Operands, b \in Operands, op \in ArithOps \cup OrderOps \cup EqOps \cup LogicOps}

\* var r = op a;
PrefixPrograms ==
    {<<ES(Var("r", Pre(op, a)))>> : a \in Operands, op \in {"-", "!", "~", "+"}}

\* var s = 0; for var i = 0; i < n; i++ { s += i; }
LoopPrograms ==
    {<<ES(Var("s", IntE(0))),
       For(ES(Var("i", IntE(0))), Inf(Id("i"), "<", c), ES(PostInc("++", Id("i"))),
           ES(Blk(<<ES(Cmp(Id("s"), "+=", Id("i")))>>)))>> :
        c \in Operands}

\* { ss }; as a statement, and the statement forms built from it
BlockS(ss) == ES(Blk(ss))
IfS(c, ss) == ES(IfE(c, BlockS(ss), NoNode))
CallS(f, args) == ES(Call(Id(f), args))
\* for var i = 0; i < n; i++ { ss }
ForS(n, ss) ==
    For(ES(Var("i", IntE(0))), Inf(Id("i"), "<", IntE(n)), ES(PostInc("++", Id("i"))), BlockS(ss))

\* the constructs a statement sequence can be nested in: top level, a block, an if-branch,
\* a for-loop body, a function body
Scopes == {"top", "block", "if", "for", "func"}
InScope(scope, ss) ==
    CASE scope = "top" -> ss
      [] scope = "block" -> <<BlockS(ss)>>
      [] scope = "if" -> <<IfS(BoolE(TRUE), ss)>>
      [] scope = "for" -> <<ForS(1, ss)>>
      [] scope = "func" -> <<Func("f", <<>>, BlockS(ss)), CallS("f", <<>>)>>

\* var x = 1; var l = [1];
Prelude == <<ES(Var("x", IntE(1))), ES(Var("l", ListE(<<IntE(1)>>)))>>

\* statements that raise an error
Failing == {ES(Id("u")), ES(Inf(IntE(1), "/", IntE(0))), ES(Idx(Id("l"), IntE(5)))}

\* statements that have an effect, or raise an error of their own
Later ==
    {ES(Var("y", IntE(1))), ES(Asg(Id("x"), IntE(2))), ES(Asg(Idx(Id("l"), IntE(0)), IntE(2))),
     ES(PostInc("++", Id("x"))), ES(PreInc("--", Idx(Id("l"), IntE(0)))),
     ES(Cmp(Id("x"), "+=", IntE(1))), Func("g", <<>>, BlockS(<<>>)), ES(Id("w")),
     CallS("len", <<Id("l")>>), ES(StrE(StrA)), ES(ListE(<<IntE(1)>>)), IfS(BoolE(TRUE), <<>>)}

\* an error, then another statement, then var z = 1; at top level
ErrorPrograms ==
    {Prelude \o InScope(scope, <<failing, later>>) \o <<ES(Var("z", IntE(1)))>> :
        scope \in Scopes, failing \in Failing, later \in Later}

\* {}: a block without statements
EmptyBlock == Blk(<<>>)

\* func f(a, b = 2) return a;   func f(a = 1) return a;   func f(a = 1, b = 2) return b;
FuncAB == Func("f", <<Param("a", NoNode), Param("b", IntE(2))>>, Ret(Id("a")))
FuncA == Func("f", <<Param("a", IntE(1))>>, Ret(Id("a")))
FuncAbDefaults == Func("f", <<Param("a", IntE(1)), Param("b", IntE(2))>>, Ret(Id("b")))

\* absent values and placeholder arguments
AbsentValuePrograms ==
    {<<ES(Inf(EmptyBlock, "+", IntE(1)))>>,
     <<ES(Pre("-", EmptyBlock))>>,
     <<ES(ListE(<<EmptyBlock>>))>>,
     <<CallS("print", <<EmptyBlock>>)>>,
     <<CallS("len", <<EmptyBlock>>)>>,
     <<ES(Var("x", EmptyBlock)), ES(PostInc("++", Id("x")))>>,
     <<ES(Var("x", EmptyBlock)), ES(Cmp(Id("x"), "+=", IntE(1)))>>,
     <<ES(Var("x", EmptyBlock)), ES(Inf(IntE(1), "+", Id("x")))>>,
     <<ES(Var("l", ListE(<<IntE(1)>>))), ES(Asg(Idx(Id("l"), IntE(0)), EmptyBlock))>>,
     <<CallS("print", <<NoNode, IntE(1)>>)>>,
     <<CallS("print", <<IntE(1), NoNode>>)>>,
     <<CallS("print", <<IntE(1)>>)>>}
        \cup {<<fn, ES(Var("r", Call(Id("f"), args)))>> :
                fn \in {FuncAB, FuncA, FuncAbDefaults},
                args \in {<<>>, <<IntE(0)>>, <<IntE(0), IntE(1)>>, <<NoNode, IntE(1)>>,
                          <<NoNode, NoNode>>, <<IntE(0), NoNode>>,
                          <<NoNode, NoNode, IntE(1)>>, <<IntE(0), IntE(1), IntE(2)>>}}

\* const c = 1; const l = [1]; const ll = [[1]]; const s = "a"; func k() {};
ConstPrelude ==
    <<ES(Const("c", IntE(1))), ES(Const("l", ListE(<<IntE(1)>>))),
      ES(Const("ll", ListE(<<ListE(<<IntE(1)>>)>>))), ES(Const("s", StrE(StrA))),
      Func("k", <<>>, BlockS(<<>>))>>

\* c, k, len, l[0], (l)[0], ll[0][0], s[0]
ConstTargets ==
    {Id("c"), Id("k"), Id("len"), Idx(Id("l"), IntE(0)), Idx(Grp(Id("l")), IntE(0)),
     Idx(Idx(Id("ll"), IntE(0)), IntE(0)), Idx(Id("s"), IntE(0))}

\* t = 2;  t = "b";  t += 1;  ++t;  t--;
Updates(t) ==
    {Asg(t, IntE(2)), Asg(t, StrE(StrB)), Cmp(t, "+=", IntE(1)), PreInc("++", t), PostInc("--", t)}

\* updates of constants from every scope, and an update whose right side declares a constant
ConstPrograms ==
    {ConstPrelude \o InScope(scope, <<ES(u)>>) :
        scope \in Scopes, u \in UNION {Updates(t) : t \in ConstTargets}}
        \cup {<<ES(Var("x", IntE(1))), BlockS(<<ES(Cmp(Id("x"), "+=", Const("x", IntE(5))))>>)>>,
              <<ES(Var("x", IntE(1))), BlockS(<<ES(Asg(Id("x"), Const("x", IntE(5))))>>)>>}

\* 0, 1, ..., -1
Indexes == {IntE(n) : n \in Ints} \cup {Pre("-", IntE(1))}

\* l[i] = v;  l[i] += v;  l[i] /= v;  ++l[i];  l[i]--;
ElementUpdates ==
    UNION {{Asg(Idx(Id("l"), i), v), Cmp(Idx(Id("l"), i), "+=", v), Cmp(Idx(Id("l"), i), "/=", v)} :
                i \in Indexes, v \in Operands}
        \cup UNION {{PreInc("++", Idx(Id("l"), i)), PostInc("--", Idx(Id("l"), i))} : i \in Indexes}

ListLiterals ==
    {ListE(<<>>), ListE(<<IntE(1)>>), ListE(<<BoolE(TRUE)>>), ListE(<<IntE(1), IntE(2)>>),
     ListE(<<ListE(<<IntE(1)>>)>>)}

\* list literals, element updates, concatenations, repetitions
ListPrograms ==
    {<<ES(Var("l", ListE(<<a, b>>)))>> : a \in Operands, b \in Operands}
        \cup {<<ES(Var("l", ListE(<<IntE(1), IntE(2)>>))), ES(u), ES(Asg(Idx(Id("l"), IntE(1)), BoolE(TRUE)))>> :
                u \in ElementUpdates}
        \cup {<<ES(Var("l", a)), ES(Var("m", Inf(Id("l"), "+", b)))>> :
                a \in ListLiterals, b \in ListLiterals}
        \cup {<<ES(Var("l", a)), ES(Var("m", Inf(Id("l"), "*", IntE(n))))>> :
                a \in ListLiterals, n \in Ints}

\* { return 1; }
ReturnBlock == Blk(<<Ret(IntE(1))>>)

\* function bodies that execute a return statement
ReturnBodies ==
    {<<Ret(IntE(1)), ES(Asg(Id("g"), IntE(7)))>>,
     <<IfS(BoolE(TRUE), <<Ret(IntE(1))>>), ES(Asg(Id("g"), IntE(7))), Ret(IntE(2))>>,
     <<ForS(2, <<Ret(IntE(1))>>), ES(Asg(Id("g"), IntE(7))), Ret(IntE(2))>>,
     <<BlockS(<<BlockS(<<Ret(IntE(1))>>)>>), ES(Asg(Id("g"), IntE(7))), Ret(IntE(2))>>,
     <<ES(Var("x", ReturnBlock)), ES(Asg(Id("g"), IntE(7))), Ret(IntE(2))>>,
     <<ES(Var("x", IfE(BoolE(TRUE), ES(ReturnBlock), NoNode))), Ret(IntE(2))>>,
     <<ES(Var("m", ListE(<<ReturnBlock>>))), Ret(IntE(2))>>,
     <<ES(Asg(Id("g"), ReturnBlock)), Ret(IntE(2))>>,
     <<ES(Inf(IntE(1), "+", ReturnBlock)), Ret(IntE(2))>>,
     <<ES(Inf(ReturnBlock, "==", IntE(1))), Ret(IntE(2))>>,
     <<CallS("len", <<ReturnBlock>>), Ret(IntE(2))>>,
     <<For(ES(Var("i", IntE(0))), Inf(Id("i"), "<", IntE(1)), ES(PostInc("++", Id("i"))),
           Ret(IntE(1))), ES(Asg(Id("g"), IntE(7))), Ret(IntE(2))>>}

\* var g = 0; func f() { body }; var r = f();   and   return at top level, in every scope
ReturnPrograms ==
    {<<ES(Var("g", IntE(0))), Func("f", <<>>, BlockS(body)), ES(Var("r", Call(Id("f"), <<>>)))>> :
        body \in ReturnBodies}
        \cup {InScope(scope, <<Ret(IntE(1))>>) \o <<ES(Var("y", IntE(1)))>> : scope \in Scopes}

\* var x = 1; <x++ | ++x | x-- | --x | x = x + 1 | x += 1 in a scope>; var z = x;
IncDecPrograms ==
    {<<ES(Var("x", IntE(1)))>> \o InScope(scope, <<ES(u)>>) \o <<ES(Var("z", Id("x")))>> :
        scope \in Scopes,
        u \in {PostInc("++", Id("x")), PostInc("--", Id("x")), PreInc("++", Id("x")),
               PreInc("--", Id("x")), Asg(Id("x"), Inf(Id("x"), "+", IntE(1))),
               Cmp(Id("x"), "+=", IntE(1))}}

\* func f() return x;
ReadX == Func("f", <<>>, Ret(Id("x")))

\* a function that reads x, called where another x is in scope
ScopePrograms ==
    {global \o <<ReadX>> \o caller :
        global \in {<<>>, <<ES(Var("x", IntE(1)))>>},
        caller \in {<<Func("g", <<>>, BlockS(<<ES(Var("x", IntE(2))), Ret(Call(Id("f"), <<>>))>>)),
                      ES(Var("r", Call(Id("g"), <<>>)))>>,
                    <<Func("g", <<Param("x", NoNode)>>, Ret(Call(Id("f"), <<>>))),
                      ES(Var("r", Call(Id("g"), <<IntE(2)>>)))>>,
                    <<BlockS(<<ES(Var("x", IntE(2))), ES(Var("r", Call(Id("f"), <<>>)))>>)>>,
                    <<ES(Var("r", Call(Id("f"), <<>>)))>>}}
        \cup {<<Func("mk", <<>>, BlockS(<<ES(Var("x", IntE(3))), ReadX, Ret(Id("f"))>>)),
                ES(Var("h", Call(Id("mk"), <<>>))),
                BlockS(<<ES(Var("x", IntE(2))), ES(Var("r", Call(Id("h"), <<>>)))>>)>>}

\* func mk() { var c = 0; func inc() { c = c + 1; return c }; func get() return c;
\*             return [inc, get] };
Counter ==
    Func("mk", <<>>,
         BlockS(<<ES(Var("c", IntE(0))),
                  Func("inc", <<>>, BlockS(<<ES(Asg(Id("c"), Inf(Id("c"), "+", IntE(1)))), Ret(Id("c"))>>)),
                  Func("get", <<>>, Ret(Id("c"))),
                  Ret(ListE(<<Id("inc"), Id("get")>>))>>))

\* the calls made on one counter: 0 is inc, 1 is get
CallSeqs == {<<a, b, c>> : a \in 0 .. 1, b \in 0 .. 1, c \in 0 .. 1}

\* mk; var fs = mk(); var gs = mk(); var r1 = fs[a](); var o = gs[0](); var r2 = fs[b]();
\* var r3 = fs[c]();
CounterProgram(cs) ==
    <<Counter, ES(Var("fs", Call(Id("mk"), <<>>))), ES(Var("gs", Call(Id("mk"), <<>>))),
      ES(Var("r1", Call(Idx(Id("fs"), IntE(cs[1])), <<>>))),
      ES(Var("o", Call(Idx(Id("gs"), IntE(0)), <<>>))),
      ES(Var("r2", Call(Idx(Id("fs"), IntE(cs[2])), <<>>))),
      ES(Var("r3", Call(Idx(Id("fs"), IntE(cs[3])), <<>>)))>>

\* var h = 0; { var c = 1; func get() return c; h = get; c = 2 }; var r1 = h();
EscapedFromBlock ==
    <<ES(Var("h", IntE(0))),
      BlockS(<<ES(Var("c", IntE(1))), Func("get", <<>>, Ret(Id("c"))), ES(Asg(Id("h"), Id("get"))),
               ES(Asg(Id("c"), IntE(2)))>>),
      ES(Var("r1", Call(Id("h"), <<>>)))>>

\* Functions that outlive the call or block that declared them
ClosurePrograms == {CounterProgram(cs) : cs \in CallSeqs} \cup {EscapedFromBlock}

\* x = 5;
AssignX == ES(Asg(Id("x"), IntE(5)))

\* statements that declare y, or that declare nothing
DeclaringY ==
    {ES(Var("y", IntE(2))), ES(Const("y", IntE(2))), Func("y", <<>>, BlockS(<<>>)),
     ES(PostInc("++", Id("x"))), ES(Cmp(Id("x"), "+=", IntE(1)))}

\* constructs that assign x = 5 to the x declared outside and do not declare x:
\* { d; x = 5 };   if true { d; x = 5 };   for ... { d; x = 5 };   if false 0 else { d; x = 5 };
\* if true var y = 2;   for var y = 0; y < 1; y++ { x = 5 };
AssigningConstructs ==
    UNION {{<<BlockS(<<d, AssignX>>)>>, <<IfS(BoolE(TRUE), <<d, AssignX>>)>>, <<ForS(1, <<d, AssignX>>)>>,
            <<ES(IfE(BoolE(FALSE), ES(IntE(0)), BlockS(<<d, AssignX>>)))>>} : d \in DeclaringY}
        \cup {<<ES(IfE(BoolE(TRUE), ES(Var("y", IntE(2))), NoNode)), AssignX>>,
              <<For(ES(Var("y", IntE(0))), Inf(Id("y"), "<", IntE(1)), ES(PostInc("++", Id("y"))),
                    BlockS(<<AssignX>>))>>}

\* constructs that declare an x of their own: { var x = 2; x = 5 }; ...
ShadowingConstructs ==
    UNION {{<<BlockS(<<d, AssignX>>)>>, <<IfS(BoolE(TRUE), <<d, AssignX>>)>>, <<ForS(1, <<d, AssignX>>)>>,
            <<ES(IfE(BoolE(TRUE), d, NoNode))>>,
            <<For(d, BoolE(FALSE), ES(IntE(0)), BlockS(<<>>))>>} :
                d \in {ES(Var("x", IntE(2))), ES(Const("x", IntE(2)))}}

\* var x = 1; <construct>; var z = x; y;
ScopeExitProgram(construct) ==
    <<ES(Var("x", IntE(1)))>> \o construct \o <<ES(Var("z", Id("x"))), ES(Id("y"))>>

\* declarations and assignments inside a block, an if-branch, a for-loop
ScopeExitPrograms == {ScopeExitProgram(c) : c \in AssigningConstructs \cup ShadowingConstructs}

\* n = (i = i + 1)
CountAndAdvance == Asg(Id("n"), Grp(Asg(Id("i"), Inf(Id("i"), "+", IntE(1)))))

\* update statements: n = (i = i + 1)   and   var k = n = (i = i + 1)
IterationUpdates == {ES(CountAndAdvance), ES(Var("k", CountAndAdvance))}

\* loop bodies: { var y = 100 }   var y = 100   {}   var w = 0
IterationBodies ==
    {BlockS(<<ES(Var("y", IntE(100)))>>), ES(Var("y", IntE(100))), BlockS(<<>>), ES(Var("w", IntE(0)))}

\* var n = 0; var y = 10; for var i = 0; i + y < 12; <update> <body>;
IterationProgram(update, body) ==
    <<ES(Var("n", IntE(0))), ES(Var("y", IntE(10))),
      For(ES(Var("i", IntE(0))), Inf(Inf(Id("i"), "+", Id("y")), "<", IntE(12)), update, body)>>

\* loops whose body or update declares a name in every iteration
IterationPrograms == {IterationProgram(u, b) : u \in IterationUpdates, b \in IterationBodies}

\* x = x + 1, whose value is the new x
Count(x) == Asg(Id(x), Inf(Id(x), "+", IntE(1)))

\* var ni = 0; var nc = 0; var nb = 0; var nu = 0;
Counters == <<ES(Var("ni", IntE(0))), ES(Var("nc", IntE(0))), ES(Var("nb", IntE(0))), ES(Var("nu", IntE(0)))>>

\* for ni = ni + 1; (nc = nc + 1) <= k; nu = nu + 1 { body }
CountedFor(k, body) ==
    For(ES(Count("ni")), Inf(Grp(Count("nc")), "<=", IntE(k)), ES(Count("nu")), BlockS(body))

\* a loop whose condition is true k times
CountingLoop(k) == Counters \o <<CountedFor(k, <<ES(Count("nb"))>>)>>

\* func f() { for ... { nb = nb + 1; if nb == r { return 7 } }; return 9 }; var r = f();
ReturningLoop(r) ==
    Counters \o
    <<Func("f", <<>>,
           BlockS(<<CountedFor(MaxInt + 1,
                               <<ES(Count("nb")), IfS(Inf(Id("nb"), "==", IntE(r)), <<Ret(IntE(7))>>)>>),
                    Ret(IntE(9))>>)),
      ES(Var("r", Call(Id("f"), <<>>)))>>

\* var c = first; for ni = ni + 1; c; c = 5 { nb = nb + 1 };
NonBoolLoop(first) ==
    Counters \o
    <<ES(Var("c", first)),
      For(ES(Count("ni")), Id("c"), ES(Asg(Id("c"), IntE(5))), BlockS(<<ES(Count("nb"))>>))>>

\* loops that count the evaluations of their initializer, condition, body and update
CountingPrograms ==
    {CountingLoop(k) : k \in Ints} \cup {ReturningLoop(r) : r \in 1 .. MaxInt}
        \cup {NonBoolLoop(BoolE(TRUE)), NonBoolLoop(IntE(5)), NonBoolLoop(NullE)}

\* func f(a, b) { g = 1 };
FuncNoDefaults == Func("f", <<Param("a", NoNode), Param("b", NoNode)>>, BlockS(<<ES(Asg(Id("g"), IntE(1)))>>))

\* argument lists: (), (0), (0, 1), (0, 1, 2), (, 1), (, ,), (0, ,)
ArgumentLists ==
    {<<>>, <<IntE(0)>>, <<IntE(0), IntE(1)>>, <<IntE(0), IntE(1), IntE(2)>>, <<NoNode, IntE(1)>>,
     <<NoNode, NoNode>>, <<IntE(0), NoNode>>}

\* var g = 0; func f(a, b) { g = 1 }; f(args);   and   var l = [1]; len(args);
ArityPrograms ==
    {<<ES(Var("g", IntE(0))), FuncNoDefaults, CallS("f", args)>> : args \in ArgumentLists}
        \cup {<<ES(Var("l", ListE(<<IntE(1)>>))), ES(Var("r", Call(Id("len"), args)))>> :
                args \in {<<>>, <<Id("l")>>, <<Id("l"), Id("l")>>, <<Id("l"), NoNode>>}}

\* (n = n + 1) + d: counts its evaluations and reads d where it is evaluated
CountedDefault == Inf(Grp(Count("n")), "+", Id("d"))

\* func f(a, b = (n = n + 1) + d) return [a, b];   func f(a = 5, b = (n = n + 1) + d) return [a, b];
DefaultFuncs ==
    {Func("f", <<Param("a", a), Param("b", CountedDefault)>>, Ret(ListE(<<Id("a"), Id("b")>>))) :
        a \in {NoNode, IntE(5)}}

\* argument lists: ArgumentLists and (0, , ,), (, , 1), (, 1, 2)
DefaultArgumentLists ==
    ArgumentLists \cup {<<IntE(0), NoNode, NoNode>>, <<NoNode, NoNode, IntE(1)>>, <<NoNode, IntE(1), IntE(2)>>}

\* var n = 0; var d = 10; var r = 0; func f ...; d = 20; { var d = 30; r = f(args) };
DefaultProgram(fn, args) ==
    <<ES(Var("n", IntE(0))), ES(Var("d", IntE(10))), ES(Var("r", IntE(0))), fn,
      ES(Asg(Id("d"), IntE(20))),
      BlockS(<<ES(Var("d", IntE(30))), ES(Asg(Id("r"), Call(Id("f"), args)))>>)>>

\* calls that leave arguments to the defaults
DefaultPrograms == {DefaultProgram(fn, args) : fn \in DefaultFuncs, args \in DefaultArgumentLists}

\* true, false, !true, 0 < 1
BoolLefts == {BoolE(TRUE), BoolE(FALSE), Pre("!", BoolE(TRUE)), Inf(IntE(0), "<", IntE(1))}

\* (n = n + 1) == 1   (n = n + 1) == 0   (n = n + 1) / 0 == 0   (n = n + 1)
CountTrue == Inf(Grp(Count("n")), "==", IntE(1))
CountFalse == Inf(Grp(Count("n")), "==", IntE(0))
CountFail == Inf(Inf(Grp(Count("n")), "/", IntE(0)), "==", IntE(0))
CountInt == Grp(Count("n"))
CountingRights == {CountTrue, CountFalse, CountFail, CountInt}

\* var n = 0; var r = a op b;
ShortCircuitProgram(a, op, b) == <<ES(Var("n", IntE(0))), ES(Var("r", Inf(a, op, b)))>>
ShortCircuitPrograms ==
    {ShortCircuitProgram(a, op, b) : a \in BoolLefts, op \in LogicOps, b \in CountingRights}

\* 1, 0, 0.5, 0.0
Dividends == {IntE(1), IntE(0), FloatE(1, 2), FloatE(0, 1)}

\* 0, 0.0, -0.0, 1 - 1, 0.5 - 0.5
Zeros ==
    {IntE(0), FloatE(0, 1), Pre("-", FloatE(0, 1)), Inf(IntE(1), "-", IntE(1)),
     Inf(FloatE(1, 2), "-", FloatE(1, 2))}

\* var r = a op z;   var x = a; x op= z;   var l = [a]; l[0] op= z;
DivisionForms == {"infix", "identifier", "element"}
DivisionProgram(form, a, op, z) ==
    CASE form = "infix" -> <<ES(Var("r", Inf(a, op, z)))>>
      [] form = "identifier" -> <<ES(Var("x", a)), ES(Cmp(Id("x"), op \o "=", z))>>
      [] form = "element" -> <<ES(Var("l", ListE(<<a>>))), ES(Cmp(Idx(Id("l"), IntE(0)), op \o "=", z))>>
DivisionPrograms ==
    {DivisionProgram(form, a, op, z) :
        form \in DivisionForms, a \in Dividends, op \in {"/", "%"}, z \in Zeros}

\* the operators
OperatorPrograms == ShortCircuitPrograms \cup DivisionPrograms

\* i as the parser gives it: -k is the prefix minus applied to k
SignedInt(i) == IF i < 0 THEN Pre("-", IntE(-i)) ELSE IntE(i)

\* [11, ..., 10 + n]
Numbered(n) == ListE([j \in 1 .. n |-> IntE(10 + j)])

\* var l = [11, ...]; var r = l[i];     var l = [11, ...]; l[i] = 7;
ListReadProgram(n, i) == <<ES(Var("l", Numbered(n))), ES(Var("r", Idx(Id("l"), SignedInt(i))))>>
ListWriteProgram(n, i) == <<ES(Var("l", Numbered(n))), ES(Asg(Idx(Id("l"), SignedInt(i)), IntE(7)))>>
ListIndexPrograms ==
    UNION {{ListReadProgram(n, i), ListWriteProgram(n, i)} :
                n \in 0 .. MaxLen, i \in (0 - MaxLen - 1) .. (MaxLen + 1)}

\* "", "ab", "éa", "aé" as UTF-8
StrAB == <<97, 98>>
StrEA == <<195, 169, 97>>
StrAE == <<97, 195, 169>>
Texts == {<<>>, StrAB, StrEA, StrAE}

\* "b" and "ü": Strings of one code point
StrU == <<195, 188>>
OneCodePoint == {StrB, StrU}

\* var s = "..."; var r = s[i];
StringReadProgram(text, i) == <<ES(Var("s", StrE(text))), ES(Var("r", Idx(Id("s"), SignedInt(i))))>>
\* var s = "..."; s[i] = c; var n = len(s); var r = s[j];
StringWriteProgram(text, i, c, j) ==
    <<ES(Var("s", StrE(text))), ES(Asg(Idx(Id("s"), SignedInt(i)), StrE(c))),
      ES(Var("n", Call(Id("len"), <<Id("s")>>))), ES(Var("r", Idx(Id("s"), IntE(j))))>>
StringIndexPrograms ==
    {StringReadProgram(text, i) : text \in Texts, i \in (0 - MaxLen) .. MaxLen}
        \cup {StringWriteProgram(text, i, c, j) :
                text \in Texts, i \in (0 - MaxLen) .. MaxLen, c \in OneCodePoint, j \in 0 .. 1}

\* indexing
IndexPrograms == ListIndexPrograms \cup StringIndexPrograms

\* var n = 2;  const n = 2;  func n() {};   for n one of x, g, len, y
DeclaredNames == {"x", "g", "len", "y"}
DeclarationForms == {"var", "const", "func"}
Declaration(form, name) ==
    CASE form = "var" -> ES(Var(name, IntE(2)))
      [] form = "const" -> ES(Const(name, IntE(2)))
      [] form = "func" -> Func(name, <<>>, BlockS(<<>>))

\* var x = 1; func g() {};  then a declaration at top level or in an inner scope
DeclarationProgram(scope, form, name) ==
    <<ES(Var("x", IntE(1))), Func("g", <<>>, BlockS(<<>>))>> \o InScope(scope, <<Declaration(form, name)>>)
DeclarationPrograms ==
    {DeclarationProgram(scope, form, name) :
        scope \in Scopes, form \in DeclarationForms, name \in DeclaredNames}

\* l[n = n + 1]   and   ll[(n = n + 1) - 1][0]
CountedIndex == Idx(Id("l"), Count("n"))
CountedTarget == Idx(Idx(Id("ll"), Inf(Grp(Count("n")), "-", IntE(1))), IntE(0))

\* t += 1;  ++t;  --t;  t++;  t--;
ElementSteps == {"+=", "++pre", "--pre", "post++", "post--"}
ElementStep(step, t) ==
    CASE step = "+=" -> Cmp(t, "+=", IntE(1))
      [] step = "++pre" -> PreInc("++", t)
      [] step = "--pre" -> PreInc("--", t)
      [] step = "post++" -> PostInc("++", t)
      [] step = "post--" -> PostInc("--", t)

\* var n = 0; var l = [10, 20, 30]; var ll = [[10], [20], [30]]; then one step on an element
\* whose index, or whose target, counts its evaluations in n
IndexEffectProgram(step, t) ==
    <<ES(Var("n", IntE(0))),
      ES(Var("l", ListE(<<IntE(10), IntE(20), IntE(30)>>))),
      ES(Var("ll", ListE(<<ListE(<<IntE(10)>>), ListE(<<IntE(20)>>), ListE(<<IntE(30)>>)>>))),
      ES(ElementStep(step, t))>>
IndexEffectPrograms ==
    {IndexEffectProgram(step, t) : step \in ElementSteps, t \in {CountedIndex, CountedTarget}}

\* u   1 / 0   len(1)   +1: expressions that raise an error
Raisers == {Id("u"), Inf(IntE(1), "/", IntE(0)), Call(Id("len"), <<IntE(1)>>), Pre("+", IntE(1))}

\* the raiser at top level, inside f called from top level, inside f called from g
Depths == 0 .. 2
RaisingProgram(d, bad) ==
    CASE d = 0 -> <<ES(bad)>>
      [] d = 1 -> <<Func("f", <<>>, ES(bad)), CallS("f", <<>>)>>
      [] d = 2 -> <<Func("f", <<>>, ES(bad)), Func("g", <<>>, CallS("f", <<>>)), CallS("g", <<>>)>>
RaisingPrograms == {RaisingProgram(d, bad) : d \in Depths, bad \in Raisers}

\* for loops, and calls
ForPrograms == IterationPrograms \cup CountingPrograms
CallPrograms == ArityPrograms \cup DefaultPrograms

Programs ==
    ArithmeticPrograms \cup PrefixPrograms \cup LoopPrograms \cup ErrorPrograms
        \cup AbsentValuePrograms \cup ConstPrograms \cup ListPrograms \cup ReturnPrograms
        \cup IncDecPrograms \cup ScopePrograms \cup ClosurePrograms \cup ScopeExitPrograms
        \cup ForPrograms \cup CallPrograms
        \cup OperatorPrograms \cup IndexPrograms \cup DeclarationPrograms
        \cup IndexEffectPrograms \cup RaisingPrograms

-----------------------------------------------------------------------------
(* The lexer. A source text is a sequence of one-character strings; a Pos *)
(* is its Idx, and Pos.Char is the character at Idx, NUL past the end.     *)

\* the zero rune a Pos holds outside the text
NUL == "NUL"

\* a nil *Pos
NilPos == 0 - 1000

\* Pos.Char after NewPos / Advance / Backup
CharAt(input, idx) == IF idx >= 0 /\ idx < Len(input) THEN input[idx + 1] ELSE NUL

\* string(runes)
RECURSIVE Join(_)
Join(runes) == IF runes = <<>> THEN "" ELSE Head(runes) \o Join(Tail(runes))

Lexer(input, curr, next) == [Input |-> input, CurrPos |-> curr, NextPos |-> next]

\* no lexer
NoLexer == Lexer(<<>>, NilPos, NilPos)

CurrChar(l) == CharAt(l.Input, l.CurrPos)

PeekChar(l) == CharAt(l.Input, l.NextPos)

NextChar(l) == [l EXCEPT !.CurrPos = l.NextPos, !.NextPos = l.NextPos + 1]

Backup(l) == [l EXCEPT !.NextPos = l.CurrPos, !.CurrPos = l.CurrPos - 1]

NewLexer(input) == NextChar(Lexer(input, 0 - 1, 0))

Token(type, literal, posStart, posEnd) ==
    [Type |-> type, Literal |-> literal, PosStart |-> posStart, PosEnd |-> posEnd]

\* &IllegalTokenError{...} and the lexer's &SyntaxError{...}
LexError(kind, msg, posStart, posEnd) ==
    [kind |-> kind, msg |-> msg, PosStart |-> posStart, PosEnd |-> posEnd]

IllegalToken == Token("ILLEGAL", <<"ILLEGAL">>, NilPos, NilPos)

Keywords ==
    [w \in {"var", "const", "func", "if", "else", "for", "return", "true", "false", "null"} |->
        CASE w = "var" -> "VAR"
          [] w = "const" -> "CONST"
          [] w = "func" -> "FUNC"
          [] w = "if" -> "IF"
          [] w = "else" -> "ELSE"
          [] w = "for" -> "FOR"
          [] w = "return" -> "RETURN"
          [] w = "true" -> "TRUE"
          [] w = "false" -> "FALSE"
          [] w = "null" -> "NULL"]

Operators ==
    ("+" :> "PLUS") @@ ("-" :> "MINUS") @@ ("*" :> "ASTERISK") @@ ("/" :> "SLASH")
        @@ ("%" :> "PERCENT") @@ (">" :> "GT") @@ ("<" :> "LT") @@ ("." :> "DOT")
        @@ ("," :> "COMMA") @@ ("=" :> "EQUAL") @@ ("[" :> "LBRACKET") @@ ("]" :> "RBRACKET")
        @@ ("(" :> "LPAREN") @@ (")" :> "RPAREN") @@ ("{" :> "LBRACE") @@ ("}" :> "RBRACE")
        @@ ("!" :> "BANG") @@ ("&" :> "BITWISE_AND") @@ ("|" :> "BITWISE_OR")
        @@ ("^" :> "BITWISE_XOR") @@ ("~" :> "BITWISE_NOT") @@ ("<<" :> "LEFT_SHIFT")
        @@ (">>" :> "RIGHT_SHIFT") @@ ("==" :> "EQUALS") @@ ("!=" :> "NOT_EQUALS")
        @@ ("<=" :> "LTE") @@ (">=" :> "GTE") @@ ("&&" :> "LOGICAL_AND")
        @@ ("||" :> "LOGICAL_OR") @@ ("++" :> "INCREMENT") @@ ("--" :> "DECREMENT")
        @@ ("->" :> "ARROW") @@ (";" :> "SEMICOLON") @@ ("+=" :> "PLUS_EQUAL")
        @@ ("-=" :> "MINUS_EQUAL") @@ ("*=" :> "ASTERISK_EQUAL") @@ ("/=" :> "SLASH_EQUAL")
        @@ ("%=" :> "PERCENT_EQUAL") @@ ("&=" :> "BITWISE_AND_EQUAL")
        @@ ("|=" :> "BITWISE_OR_EQUAL") @@ ("^=" :> "BITWISE_XOR_EQUAL")
        @@ ("<<=" :> "LEFT_SHIFT_EQUAL") @@ (">>=" :> "RIGHT_SHIFT_EQUAL")

LookupIdent(ident) == IF ident \in DOMAIN Keywords THEN Keywords[ident] ELSE "IDENT"

\* the backquote rune
BQ == "BQ"

\* "BS" is the backspace rune
Escape ==
    ("n" :> "\n") @@ ("t" :> "\t") @@ ("r" :> "\r") @@ ("b" :> "BS") @@ ("\\" :> "\\")
        @@ ("'" :> "'") @@ ("\"" :> "\"") @@ (BQ :> BQ)

isNumber(ch) == ch \in {"0", "1", "2", "3", "4", "5", "6", "7", "8", "9"}

\* a..z, A..Z and _; the texts of this model are ASCII
isLetter(ch) ==
    ch \in {"a", "b", "c", "d", "e", "f", "g", "h", "i", "j", "k", "l", "m", "n", "o", "p",
            "q", "r", "s", "t", "u", "v", "w", "x", "y", "z", "A", "B", "C", "D", "E", "F",
            "G", "H", "I", "J", "K", "L", "M", "N", "O", "P", "Q", "R", "S", "T", "U", "V",
            "W", "X", "Y", "Z", "_"}

isOperator(ch) == ch \in DOMAIN Operators

isWhitespace(ch) == ch \in {" ", "\t", "\n", "\r"}

RECURSIVE eatWhitespace(_)
eatWhitespace(l) == IF isWhitespace(CurrChar(l)) THEN eatWhitespace(NextChar(l)) ELSE Backup(l)

\* the loop of skipComment and the step past the newline
RECURSIVE skipToLineEnd(_)
skipToLineEnd(l) ==
    IF CurrChar(l) # "\n" /\ CurrChar(l) # NUL THEN skipToLineEnd(NextChar(l))
    ELSE IF CurrChar(l) = "\n" THEN NextChar(l) ELSE l

skipComment(l) == skipToLineEnd(NextChar(NextChar(l)))

\* the loop of skipMultilineComment and what follows it; an error leaves nil out
RECURSIVE skipToCommentEnd(_)
skipToCommentEnd(l) ==
    IF (CurrChar(l) # "*" \/ PeekChar(l) # "/") /\ CurrChar(l) # NUL
    THEN skipToCommentEnd(NextChar(l))
    ELSE IF CurrChar(l) # "*" \/ PeekChar(l) # "/"
         THEN [l |-> l,
               err |-> LexError("lexer.SyntaxError", <<"\"*/\" is expected.">>,
                                l.CurrPos, l.NextPos + 1)]
         ELSE [l |-> NextChar(NextChar(l)), err |-> NoErr]

skipMultilineComment(l) == skipToCommentEnd(NextChar(NextChar(l)))

\* scanNumber from the state of its loop: num and dotCount
RECURSIVE scanNumber(_, _, _)
scanNumber(l, num, dotCount) ==
    LET ch == CurrChar(l)
        dots == IF ch = "." THEN dotCount + 1 ELSE dotCount
    IN  IF isNumber(ch) \/ ch = "."
        THEN IF ch = "." /\ dots > 1
             THEN [l |-> l, num |-> <<>>,
                   err |-> LexError("IllegalTokenError", <<"illegal float literal.">>,
                                    l.CurrPos, l.NextPos)]
             ELSE scanNumber(NextChar(l), Append(num, ch), dots)
        ELSE [l |-> Backup(l), num |-> num, err |-> NoErr]

\* scanIdentifier from the state of its loop: runes
RECURSIVE scanIdentifier(_, _)
scanIdentifier(l, runes) ==
    LET l2 == NextChar(l)
        r2 == Append(runes, CurrChar(l))
    IN  IF ~isLetter(CurrChar(l2)) /\ ~isNumber(CurrChar(l2))
        THEN [l |-> Backup(l2), id |-> r2]
        ELSE scanIdentifier(l2, r2)

\* scanOperator that takes the first character alone
scanOperatorOneChar(l, op) == [l |-> l, op |-> <<CurrChar(l)>>]

\* scanOperator from the state of its loop: op
RECURSIVE scanOperator(_, _)
scanOperator(l, op) ==
    LET op2 == Append(op, CurrChar(l))
        l2 == NextChar(l)
    IN  IF Join(op2) \notin DOMAIN Operators
        THEN [l |-> Backup(Backup(l2)), op |-> SubSeq(op2, 1, Len(op2) - 1)]
        ELSE IF ~isOperator(CurrChar(l2))
             THEN [l |-> Backup(l2), op |-> op2]
             ELSE scanOperator(l2, op2)

\* the loop of scanString and what follows it
RECURSIVE scanStringBody(_, _, _, _)
scanStringBody(l, quote, posStart, runes) ==
    LET ch == CurrChar(l) IN
    IF ch # quote /\ ch # NUL
    THEN IF ch = "\\" /\ quote # BQ
         THEN LET l2 == NextChar(l) IN
              IF CurrChar(l2) = NUL
              THEN [l |-> l2, str |-> <<>>,
                    err |-> LexError("IllegalTokenError", <<"trailing backslash.">>,
                                     l.CurrPos, l2.NextPos)]
              ELSE IF CurrChar(l2) \notin DOMAIN Escape
                   THEN [l |-> l2, str |-> <<>>,
                         err |-> LexError("IllegalTokenError", <<"illegal escape character.">>,
                                          l.CurrPos, l2.NextPos)]
                   ELSE scanStringBody(NextChar(l2), quote, posStart,
                                       Append(runes, Escape[CurrChar(l2)]))
         ELSE scanStringBody(NextChar(l), quote, posStart, Append(runes, ch))
    ELSE IF ch # quote
         THEN [l |-> l, str |-> <<>>,
               err |-> LexError("IllegalTokenError", <<"unterminated string literal.">>,
                                posStart, l.NextPos)]
         ELSE [l |-> l, str |-> runes, err |-> NoErr]

scanString(l) == scanStringBody(NextChar(l), CurrChar(l), l.CurrPos, <<>>)

\* l.NextToken(): the lexer afterwards, the token and the error
RECURSIVE NextToken(_)
NextToken(l) ==
    LET ch == CurrChar(l)
        posStart == l.CurrPos
    IN  CASE ch = NUL ->
                [l |-> l, tok |-> Token("EOF", <<"EOF">>, l.CurrPos, l.NextPos), err |-> NoErr]
          [] isWhitespace(ch) -> NextToken(NextChar(eatWhitespace(l)))
          [] isNumber(ch) ->
                LET r == scanNumber(l, <<>>, 0) IN
                IF r.num = <<".">>
                THEN [l |-> r.l, tok |-> Token("DOT", <<".">>, posStart, r.l.NextPos),
                      err |-> NoErr]
                ELSE IF r.err # NoErr
                THEN [l |-> r.l, tok |-> Token("ILLEGAL", <<"ILLEGAL">>, posStart, r.l.NextPos),
                      err |-> r.err]
                ELSE IF \E i \in DOMAIN r.num : r.num[i] = "."
                THEN [l |-> r.l, tok |-> Token("FLOAT", r.num, posStart, r.l.NextPos),
                      err |-> NoErr]
                ELSE [l |-> r.l, tok |-> Token("INT", r.num, posStart, r.l.NextPos),
                      err |-> NoErr]
          [] isLetter(ch) ->
                LET r == scanIdentifier(l, <<>>) IN
                [l |-> r.l, tok |-> Token(LookupIdent(Join(r.id)), r.id, posStart, r.l.NextPos),
                 err |-> NoErr]
          [] isOperator(ch) /\ ch = "/" /\ PeekChar(l) = "/" -> NextToken(skipComment(l))
          [] isOperator(ch) /\ ch = "/" /\ PeekChar(l) = "*" ->
                LET r == skipMultilineComment(l) IN
                IF r.err # NoErr
                THEN [l |-> r.l, tok |-> Token("ILLEGAL", <<"ILLEGAL">>, posStart, r.l.NextPos),
                      err |-> r.err]
                ELSE NextToken(r.l)
          [] isOperator(ch) /\ ~(ch = "/" /\ PeekChar(l) \in {"/", "*"}) ->
                LET r == scanOperator(l, <<>>) IN
                [l |-> r.l, tok |-> Token(Operators[Join(r.op)], r.op, posStart, r.l.NextPos),
                 err |-> NoErr]
          [] ch \in {"\"", "'", BQ} ->
                LET r == scanString(l) IN
                IF r.err # NoErr
                THEN [l |-> r.l, tok |-> Token("ILLEGAL", <<"ILLEGAL">>, posStart, r.l.NextPos),
                      err |-> r.err]
                ELSE [l |-> r.l, tok |-> Token("STRING", r.str, posStart, r.l.NextPos),
                      err |-> NoErr]
          [] OTHER ->
                [l |-> l, tok |-> IllegalToken,
                 err |-> LexError("IllegalTokenError", <<"illegal token", ch>>,
                                  l.CurrPos, l.NextPos)]

-----------------------------------------------------------------------------
(* The parser (internal/parser). A parsing function takes the Parser and   *)
(* gives the Parser afterwards and the node it returns; a nil Pos that is  *)
(* copied aborts the process, and nothing runs after that.                 *)

LOWEST == 0
ASSIGN == 1
LOGIC == 2
BIT == 3
EQUALS == 4
COMPARE == 5
SUM == 6
MUL == 7
PREFIX == 8
POSTFIX == 9
CALL == 10

AssignTypes ==
    {"EQUAL", "PLUS_EQUAL", "MINUS_EQUAL", "ASTERISK_EQUAL", "SLASH_EQUAL", "PERCENT_EQUAL",
     "BITWISE_AND_EQUAL", "BITWISE_OR_EQUAL", "BITWISE_XOR_EQUAL", "LEFT_SHIFT_EQUAL",
     "RIGHT_SHIFT_EQUAL"}

\* precedences[type]; a type that is not a key gives 0
precedences(type) ==
    CASE type \in AssignTypes -> ASSIGN
      [] type \in {"LOGICAL_AND", "LOGICAL_OR"} -> LOGIC
      [] type \in {"BITWISE_XOR", "BITWISE_AND", "BITWISE_OR", "LEFT_SHIFT", "RIGHT_SHIFT"} -> BIT
      [] type \in {"EQUALS", "NOT_EQUALS"} -> EQUALS
      [] type \in {"LT", "LTE", "GT", "GTE"} -> COMPARE
      [] type \in {"PLUS", "MINUS"} -> SUM
      [] type \in {"ASTERISK", "SLASH", "PERCENT"} -> MUL
      [] type \in {"INCREMENT", "DECREMENT"} -> POSTFIX
      [] type \in {"LPAREN", "LBRACKET"} -> CALL
      [] OTHER -> 0

\* the Parser; Fetched is the history of what p.L.NextToken() returned
Parser(l, curr, next, err) ==
    [L |-> l, CurrToken |-> curr, NextToken |-> next, Err |-> err, panicked |-> FALSE,
     Fetched |-> <<>>]

\* the parser's &SyntaxError{...}
SyntaxError(msg, posStart, posEnd) == LexError("SyntaxError", msg, posStart, posEnd)

\* pos.Copy(): a nil pos aborts the process
Deref(p, pos) == IF pos = NilPos THEN [p EXCEPT !.panicked = TRUE] ELSE p

\* p.CurrToken.PosStart.Copy()
CopyPosStart(p) == Deref(p, p.CurrToken.PosStart)

\* p.CurrToken.PosEnd.Copy()
CopyPosEnd(p) == Deref(p, p.CurrToken.PosEnd)

\* p.Err = err
SetErr(p, err) == IF p.panicked THEN p ELSE [p EXCEPT !.Err = err]

\* the function goes no further: the process is gone, or p.Err != nil made it return nil
Stopped(p) == p.panicked \/ p.Err # NoErr

\* return nil; also a step that yields no node
Nothing(p) == [p |-> p, node |-> NoNode]

\* x := v, and what follows
With(v, K(_)) == K(v)

\* r := a call; if p.Err != nil { return nil }, and what follows
IfOk(r, K(_)) == IF Stopped(r.p) THEN Nothing(r.p) ELSE K(r)

\* return &ast.X{..., PosEnd: p.CurrToken.PosEnd.Copy()}
Made(p, node) == [p |-> CopyPosEnd(p), node |-> IF p.CurrToken.PosEnd = NilPos THEN NoNode ELSE node]

\* tok, p.Err = p.L.NextToken(), where r is what NextToken returned, and p.L.NextChar()
Fetched(p, r) ==
    [p EXCEPT !.L = NextChar(r.l), !.NextToken = r.tok, !.Err = r.err,
              !.Fetched = Append(@, [tok |-> r.tok, err |-> r.err])]

Advance(p) ==
    IF p.panicked THEN p ELSE Fetched([p EXCEPT !.CurrToken = p.NextToken], NextToken(p.L))

CheckNextAndAdvance(p, excepted) ==
    IF p.panicked THEN p
    ELSE IF p.NextToken.Type # excepted
    THEN SetErr(Deref(Deref(p, p.NextToken.PosStart), p.NextToken.PosEnd),
                SyntaxError(<<"expected", excepted, "but got", p.NextToken.Type>>,
                            p.NextToken.PosStart, p.NextToken.PosEnd))
    ELSE Advance(p)

\* NewParser(l): p is nil when err is not; an error is returned before p.L.NextChar()
NewParser(l) ==
    With(NextToken(l), LAMBDA r1 :
        IF r1.err # NoErr
        THEN [p |-> [Parser(r1.l, r1.tok, IllegalToken, r1.err)
                        EXCEPT !.Fetched = <<[tok |-> r1.tok, err |-> r1.err]>>],
              nil |-> TRUE]
        ELSE With(NextToken(NextChar(r1.l)), LAMBDA r2 :
                [p |-> [Parser(IF r2.err # NoErr THEN r2.l ELSE NextChar(r2.l),
                               r1.tok, r2.tok, r2.err)
                           EXCEPT !.Fetched = <<[tok |-> r1.tok, err |-> r1.err],
                                                [tok |-> r2.tok, err |-> r2.err]>>],
                 nil |-> r2.err # NoErr]))

\* expr.IsLvalue()
RECURSIVE IsLvalue(_)
IsLvalue(node) ==
    CASE node.k = "IdentifierExpression" -> TRUE
      [] node.k = "IndexExpression" -> TRUE
      [] node.k = "GroupedExpression" -> IsLvalue(node.Expr)
      [] OTHER -> FALSE

DigitValue(ch) ==
    CASE ch = "0" -> 0 [] ch = "1" -> 1 [] ch = "2" -> 2 [] ch = "3" -> 3 [] ch = "4" -> 4
      [] ch = "5" -> 5 [] ch = "6" -> 6 [] ch = "7" -> 7 [] ch = "8" -> 8 [] ch = "9" -> 9

\* strconv.ParseInt(literal, 10, 64) of a run of digits that fits 64 bits
RECURSIVE ParseInt(_)
ParseInt(digits) ==
    IF digits = <<>> THEN 0
    ELSE 10 * ParseInt(SubSeq(digits, 1, Len(digits) - 1)) + DigitValue(digits[Len(digits)])

RECURSIVE Pow10(_)
Pow10(n) == IF n = 0 THEN 1 ELSE 10 * Pow10(n - 1)

\* strconv.ParseFloat(literal, 64) of digits, one dot and digits: the fraction it denotes
ParseFloat(literal) ==
    LET d == CHOOSE i \in DOMAIN literal : literal[i] = "."
        whole == SubSeq(literal, 1, d - 1)
        part == SubSeq(literal, d + 1, Len(literal))
    IN  Frac(ParseInt(whole \o part), Pow10(Len(part)))

parseIntegerExpression(p, posStart) == Made(p, IntE(ParseInt(p.CurrToken.Literal)))

parseFloatExpression(p, posStart) ==
    LET f == ParseFloat(p.CurrToken.Literal) IN Made(p, FloatE(f.n, f.d))

parseIdentifierExpression(p, posStart) == Made(p, Id(Join(p.CurrToken.Literal)))

parseBoolExpression(p, posStart) == Made(p, BoolE(Join(p.CurrToken.Literal) = "true"))

parseNullExpression(p, posStart) == Made(p, NullE)

parseStringExpression(p, posStart) == Made(p, StrE(p.CurrToken.Literal))

RECURSIVE ParseExpression(_, _)
RECURSIVE parseStatement(_, _)

\* p.parseStatement(p.CurrToken.PosStart.Copy())
parseStatementHere(p) == parseStatement(CopyPosStart(p), p.CurrToken.PosStart)

\* p.parseIdentifierExpression(p.CurrToken.PosStart.Copy())
parseIdentifierHere(p) == parseIdentifierExpression(CopyPosStart(p), p.CurrToken.PosStart)

\* the SyntaxError of an operator whose operand is not an lvalue
RequiresLvalue(p, operator, posStart) ==
    Nothing(SetErr(CopyPosEnd(p),
                   SyntaxError(<<"operation", operator, "requires an lvalue operand.">>,
                               posStart, p.CurrToken.PosEnd)))

parsePrefixExpression(p, posStart) ==
    IfOk(ParseExpression(Advance(p), PREFIX), LAMBDA expr :
        Made(expr.p, Pre(Join(p.CurrToken.Literal), expr.node)))

parseGroupedExpression(p, posStart) ==
    IfOk(ParseExpression(Advance(p), LOWEST), LAMBDA expr :
        Made(CheckNextAndAdvance(expr.p, "RPAREN"), Grp(expr.node)))

parseVarInitializationExpression(p, posStart) ==
    IfOk(Nothing(CheckNextAndAdvance(p, "IDENT")), LAMBDA s1 :
    With(parseIdentifierHere(s1.p), LAMBDA name :
    IfOk(Nothing(CheckNextAndAdvance(name.p, "EQUAL")), LAMBDA s2 :
    IfOk(ParseExpression(Advance(s2.p), LOWEST), LAMBDA value :
        Made(value.p, VarInit(p.CurrToken.Type = "CONST", name.node.Name, value.node))))))

parseVarAssignmentExpression(p, left, posStart) ==
    IF ~IsLvalue(left) THEN RequiresLvalue(p, "=", posStart)
    ELSE IfOk(ParseExpression(Advance(p), LOWEST), LAMBDA value :
            Made(value.p, Asg(left, value.node)))

parseCompoundAssignmentExpression(p, left, posStart) ==
    IF ~IsLvalue(left) THEN RequiresLvalue(p, Join(p.CurrToken.Literal), posStart)
    ELSE IfOk(ParseExpression(Advance(p), LOWEST), LAMBDA right :
            Made(right.p, Cmp(left, Join(p.CurrToken.Literal), right.node)))

parsePrefixUnaryIncDecExpression(p, posStart) ==
    IfOk(ParseExpression(Advance(p), LOWEST), LAMBDA right :
        IF ~IsLvalue(right.node) THEN RequiresLvalue(right.p, "++ or --", posStart)
        ELSE Made(right.p, PreInc(Join(p.CurrToken.Literal), right.node)))

parsePostfixUnaryIncDecExpression(p, left, posStart) ==
    IF ~IsLvalue(left) THEN RequiresLvalue(p, "++ or --", posStart)
    ELSE Made(p, PostInc(Join(p.CurrToken.Literal), left))

\* parseInfixExpression that parses its right operand from the lowest precedence
parseInfixExpressionLowest(p, left, posStart) ==
    IfOk(ParseExpression(Advance(p), LOWEST), LAMBDA right :
        Made(right.p, Inf(left, Join(p.CurrToken.Literal), right.node)))

parseInfixExpression(p, left, posStart) ==
    IfOk(ParseExpression(Advance(p), precedences(p.CurrToken.Type)), LAMBDA right :
        Made(right.p, Inf(left, Join(p.CurrToken.Literal), right.node)))

\* for p.CurrToken.Type == lexer.SEMICOLON { p.Advance() }
RECURSIVE SkipSemicolons(_)
SkipSemicolons(p) ==
    IF ~p.panicked /\ p.CurrToken.Type = "SEMICOLON" THEN SkipSemicolons(Advance(p)) ELSE p

\* if p.NextToken.Type != closing { p.CheckNextAndAdvance(separator) }
SeparatorUnless(p, closing, separator) ==
    IF p.NextToken.Type # closing THEN CheckNextAndAdvance(p, separator) ELSE p

\* the loop of parseBlockExpression from its state, and the return after it
RECURSIVE BlockStatements(_, _)
BlockStatements(p, stmts) ==
    IF p.panicked THEN Nothing(p)
    ELSE IF p.CurrToken.Type # "RBRACE"
    THEN IF p.Err # NoErr THEN Nothing(p)
         ELSE With(SkipSemicolons(p), LAMBDA p1 :
              IF p1.CurrToken.Type = "RBRACE" THEN Made(p1, Blk(stmts))
              ELSE IfOk(parseStatementHere(p1), LAMBDA stat :
                   IfOk(Nothing(SeparatorUnless(stat.p, "RBRACE", "SEMICOLON")), LAMBDA s :
                       BlockStatements(Advance(s.p), Append(stmts, stat.node)))))
    ELSE Made(p, Blk(stmts))

parseBlockExpression(p, posStart) == BlockStatements(Advance(p), <<>>)

parseIfExpression(p, posStart) ==
    IfOk(ParseExpression(Advance(p), LOWEST), LAMBDA cond :
    With(Advance(cond.p), LAMBDA p1 :
    IfOk(parseStatement(p1, p1.CurrToken.PosStart), LAMBDA cons :
        IF cons.p.NextToken.Type = "ELSE"
        THEN With(Advance(Advance(cons.p)), LAMBDA p2 :
             IfOk(parseStatement(p2, p2.CurrToken.PosStart), LAMBDA alt :
                 Made(alt.p, IfE(cond.node, cons.node, alt.node))))
        ELSE Made(cons.p, IfE(cond.node, cons.node, NoNode)))))

\* the loop of parseListExpression from its state, and the return after it
RECURSIVE ListElements(_, _)
ListElements(p, elems) ==
    IF p.panicked THEN Nothing(p)
    ELSE IF p.CurrToken.Type # "RBRACKET"
    THEN IF p.Err # NoErr THEN Nothing(p)
         ELSE IfOk(ParseExpression(p, LOWEST), LAMBDA elem :
              IfOk(Nothing(SeparatorUnless(elem.p, "RBRACKET", "COMMA")), LAMBDA s :
                  ListElements(Advance(s.p), Append(elems, elem.node))))
    ELSE Made(p, ListE(elems))

parseListExpression(p, posStart) ==
    With(Advance(p), LAMBDA p1 :
        IF p1.CurrToken.Type = "RBRACKET" THEN Made(p1, ListE(<<>>))
        ELSE ListElements(p1, <<>>))

\* the loop of parseCallExpression from its state, and the return after it
RECURSIVE CallArguments(_, _, _)
CallArguments(p, left, args) ==
    IF p.panicked THEN Nothing(p)
    ELSE IF p.CurrToken.Type # "RPAREN"
    THEN IF p.CurrToken.Type # "COMMA"
         THEN IfOk(ParseExpression(p, LOWEST), LAMBDA arg :
              IfOk(Nothing(SeparatorUnless(arg.p, "RPAREN", "COMMA")), LAMBDA s :
                  CallArguments(Advance(s.p), left, Append(args, arg.node))))
         ELSE CallArguments(Advance(p), left, Append(args, NoNode))
    ELSE Made(p, Call(left, args))

parseCallExpression(p, left, posStart) == CallArguments(Advance(p), left, <<>>)

parseIndexExpression(p, left, posStart) ==
    IfOk(ParseExpression(Advance(p), LOWEST), LAMBDA indexExpr :
    IfOk(Nothing(CheckNextAndAdvance(indexExpr.p, "RBRACKET")), LAMBDA s :
        Made(s.p, Idx(left, indexExpr.node))))

parseForStatement(p, posStart) ==
    IfOk(parseStatementHere(Advance(p)), LAMBDA init :
    IfOk(Nothing(CheckNextAndAdvance(init.p, "SEMICOLON")), LAMBDA s1 :
    IfOk(ParseExpression(Advance(s1.p), LOWEST), LAMBDA cond :
    IfOk(Nothing(CheckNextAndAdvance(cond.p, "SEMICOLON")), LAMBDA s2 :
    IfOk(parseStatementHere(Advance(s2.p)), LAMBDA update :
    IfOk(parseStatementHere(Advance(update.p)), LAMBDA body :
        Made(body.p, For(init.node, cond.node, update.node, body.node))))))))

\* the parameter loop of parseFunctionDeclarationStatement from its state; the node is the
\* list of parameters, or nil when the function returned nil from inside the loop
RECURSIVE Parameters(_, _, _)
Parameters(p, params, haveDefault) ==
    IF p.panicked THEN Nothing(p)
    ELSE IF p.CurrToken.Type # "RPAREN"
    THEN IfOk(parseIdentifierHere(p), LAMBDA para :
         IF haveDefault /\ para.p.NextToken.Type # "EQUAL"
         THEN Nothing(SetErr(CopyPosEnd(para.p),
                             SyntaxError(<<"non-default parameter follows default parameter.">>,
                                         p.CurrToken.PosStart, p.CurrToken.PosEnd)))
         ELSE IfOk(IF para.p.NextToken.Type = "EQUAL"
                   THEN ParseExpression(Advance(Advance(para.p)), LOWEST)
                   ELSE Nothing(para.p), LAMBDA default :
              IfOk(Nothing(SeparatorUnless(CopyPosEnd(default.p), "RPAREN", "COMMA")), LAMBDA s :
                  Parameters(Advance(s.p),
                             Append(params, [Name |-> para.node, DefaultValue |-> default.node]),
                             haveDefault \/ para.p.NextToken.Type = "EQUAL"))))
    ELSE [p |-> p, node |-> params]

parseFunctionDeclarationStatement(p, posStart) ==
    IfOk(Nothing(CheckNextAndAdvance(p, "IDENT")), LAMBDA s1 :
    With(parseIdentifierHere(s1.p), LAMBDA name :
    IfOk(Nothing(CheckNextAndAdvance(name.p, "LPAREN")), LAMBDA s2 :
    IfOk(Parameters(Advance(s2.p), <<>>, FALSE), LAMBDA params :
    IfOk(parseStatementHere(Advance(params.p)), LAMBDA body :
        Made(body.p, [k |-> "FunctionDeclarationStatement", Name |-> name.node,
                      Parameter |-> params.node, Body |-> body.node]))))))

parseReturnStatement(p, posStart) ==
    IfOk(ParseExpression(Advance(p), LOWEST), LAMBDA value : Made(value.p, Ret(value.node)))

parseExpressionStatement(p, posStart) ==
    IfOk(ParseExpression(p, LOWEST), LAMBDA expr : Made(expr.p, ES(expr.node)))

parseStatement(p, posStart) ==
    IF p.panicked THEN Nothing(p)
    ELSE CASE p.CurrToken.Type = "FOR" -> parseForStatement(p, posStart)
           [] p.CurrToken.Type = "FUNC" -> parseFunctionDeclarationStatement(p, posStart)
           [] p.CurrToken.Type = "RETURN" -> parseReturnStatement(p, posStart)
           [] OTHER -> parseExpressionStatement(p, posStart)

\* p.PrefixParseFns[type](posStart), for the types that are keys of the map
PrefixParseFns(type, p, posStart) ==
    CASE type = "INT" -> parseIntegerExpression(p, posStart)
      [] type = "FLOAT" -> parseFloatExpression(p, posStart)
      [] type = "IDENT" -> parseIdentifierExpression(p, posStart)
      [] type \in {"TRUE", "FALSE"} -> parseBoolExpression(p, posStart)
      [] type = "NULL" -> parseNullExpression(p, posStart)
      [] type = "STRING" -> parseStringExpression(p, posStart)
      [] type \in {"PLUS", "MINUS", "BANG", "BITWISE_NOT"} -> parsePrefixExpression(p, posStart)
      [] type = "LPAREN" -> parseGroupedExpression(p, posStart)
      [] type \in {"VAR", "CONST"} -> parseVarInitializationExpression(p, posStart)
      [] type \in {"INCREMENT", "DECREMENT"} -> parsePrefixUnaryIncDecExpression(p, posStart)
      [] type = "LBRACE" -> parseBlockExpression(p, posStart)
      [] type = "IF" -> parseIfExpression(p, posStart)
      [] type = "LBRACKET" -> parseListExpression(p, posStart)

PrefixTypes ==
    {"INT", "FLOAT", "IDENT", "TRUE", "FALSE", "NULL", "STRING", "PLUS", "MINUS", "BANG",
     "BITWISE_NOT", "LPAREN", "VAR", "CONST", "INCREMENT", "DECREMENT", "LBRACE", "IF",
     "LBRACKET"}

InfixOperatorTypes ==
    {"LOGICAL_AND", "LOGICAL_OR", "BITWISE_XOR", "BITWISE_AND", "BITWISE_OR", "LEFT_SHIFT",
     "RIGHT_SHIFT", "EQUALS", "NOT_EQUALS", "LT", "LTE", "GT", "GTE", "PLUS", "MINUS",
     "ASTERISK", "SLASH", "PERCENT"}

\* p.InfixParseFns[type](left, posStart), for the types that are keys of the map
InfixParseFns(type, p, left, posStart) ==
    CASE type \in InfixOperatorTypes -> parseInfixExpression(p, left, posStart)
      [] type = "EQUAL" -> parseVarAssignmentExpression(p, left, posStart)
      [] type \in AssignTypes \ {"EQUAL"} -> parseCompoundAssignmentExpression(p, left, posStart)
      [] type \in {"INCREMENT", "DECREMENT"} ->
            parsePostfixUnaryIncDecExpression(p, left, posStart)
      [] type = "LPAREN" -> parseCallExpression(p, left, posStart)
      [] type = "LBRACKET" -> parseIndexExpression(p, left, posStart)

InfixTypes ==
    InfixOperatorTypes \cup AssignTypes \cup {"INCREMENT", "DECREMENT", "LPAREN", "LBRACKET"}

\* the infix loop of ParseExpression from its state, and the return after it
RECURSIVE InfixLoop(_, _, _, _)
InfixLoop(p, expr, precedence, posStart) ==
    IF p.panicked THEN Nothing(p)
    ELSE IF precedence < precedences(p.NextToken.Type)
    THEN IF p.NextToken.Type \notin InfixTypes THEN [p |-> p, node |-> expr]
         ELSE IfOk(InfixParseFns(p.NextToken.Type, Advance(p), expr, posStart), LAMBDA r :
                  InfixLoop(r.p, r.node, precedence, posStart))
    ELSE [p |-> p, node |-> expr]

ParseExpression(p, precedence) ==
    IF p.panicked \/ p.CurrToken.PosStart = NilPos THEN Nothing(CopyPosStart(p))
    ELSE IF p.CurrToken.Type \notin PrefixTypes
    THEN Nothing(SetErr(CopyPosEnd(p),
                        SyntaxError(<<"unexpected", p.CurrToken.Type>>,
                                    p.CurrToken.PosStart, p.CurrToken.PosEnd)))
    ELSE IfOk(PrefixParseFns(p.CurrToken.Type, p, p.CurrToken.PosStart), LAMBDA expr :
             InfixLoop(expr.p, expr.node, precedence, p.CurrToken.PosStart))

\* the loop of ParseProgram from its state: one turn, and the return when it ends;
\* returned is TRUE when ParseProgram has returned, and program is what it returned
Turn(p, statements, returned, program) ==
    [p |-> p, Statements |-> statements, returned |-> returned, program |-> program]

ParseProgramTurn(p, statements) ==
    IF p.CurrToken.Type # "EOF"
    THEN IF p.Err # NoErr THEN Turn(p, statements, TRUE, NoNode)
         ELSE With(SkipSemicolons(p), LAMBDA p1 :
              IF p1.CurrToken.Type = "EOF"
              THEN Turn(CopyPosEnd(p1), statements, TRUE,
                        [k |-> "Program", Statements |-> statements])
              ELSE With(parseStatementHere(p1), LAMBDA stat :
                   IF Stopped(stat.p) THEN Turn(stat.p, statements, TRUE, NoNode)
                   ELSE With(CheckNextAndAdvance(stat.p, "SEMICOLON"), LAMBDA p2 :
                        IF Stopped(p2) THEN Turn(p2, statements, TRUE, NoNode)
                        ELSE Turn(Advance(p2), Append(statements, stat.node), FALSE, NoNode))))
    ELSE Turn(CopyPosEnd(p), statements, TRUE, [k |-> "Program", Statements |-> statements])

\* no parser yet; pc is where the caller of the parser stands, program what ParseProgram returned
NoParser ==
    [CurrToken |-> IllegalToken, NextToken |-> IllegalToken, Err |-> NoErr, pc |-> "NewParser",
     Statements |-> <<>>, program |-> NoNode]

-----------------------------------------------------------------------------
(* The specification.                                                      *)

\* the root frame the runner creates: Parent is nil
RootFrame == <<<<"file", "main">>>>

Init ==
    /\ prog \in Programs
    /\ stack = <<EvalAct([k |-> "Program", Statements |-> prog], 1)>>
    /\ ret = Nil
    /\ envs = <<RootEnvironment>>
    /\ heap = <<>>
    /\ Frame = RootFrame
    /\ Err = NoErr
    /\ panicked = FALSE
    /\ steps = 0
    /\ lexer = NoLexer
    /\ tokens = <<>>
    /\ parser = NoParser

Next ==
    \/ evalUnknownNode
    \/ evalProgram
    \/ evalForStatement
    \/ evalFunctionDeclarationStatement
    \/ evalReturnStatement
    \/ evalExpressionStatement
    \/ evalIntExpression
    \/ evalFloatExpression
    \/ evalBooleanExpression
    \/ evalNullExpression
    \/ evalStringExpression
    \/ evalListExpression
    \/ evalIdentifierExpression
    \/ evalVarInitializationExpression
    \/ evalVarAssignmentExpression
    \/ evalCompoundAssignmentExpression
    \/ evalPrefixUnaryIncDecExpression
    \/ evalPostfixUnaryIncDecExpression
    \/ evalPrefixExpression
    \/ evalInfixExpression
    \/ evalIndexExpression
    \/ evalWithReturnValue
    \/ evalBlockExpression
    \/ evalIfExpression
    \/ evalCallExpression

Spec == Init /\ [][Next]_vars

\* the evaluation has ended: Eval returned to the runner, or the process aborted
Done == stack = <<>> \/ panicked

-----------------------------------------------------------------------------
(* The Environment methods on their own: a chain of scopes 1 <- 2 <- 3,     *)
(* driven by arbitrary Set, Assign and Get calls.                          *)

ScopeNames == {"a", "b"}
ScopeSymbols == {Symbol(n, IntV(v), FALSE) : n \in ScopeNames, v \in 0 .. 1}

EnvInit ==
    /\ prog = <<>>
    /\ stack = <<>>
    /\ ret = Nil
    /\ envs = <<NewEnvironment(0), NewEnvironment(1), NewEnvironment(2)>>
    /\ heap = <<>>
    /\ Frame = RootFrame
    /\ Err = NoErr
    /\ panicked = FALSE
    /\ steps = 0
    /\ lexer = NoLexer
    /\ tokens = <<>>
    /\ parser = NoParser

\* e.Set(name, sym); stack records the call
CallSet ==
    \E e \in 1 .. Len(envs), sym \in ScopeSymbols :
        /\ envs' = Set(envs, e, sym.Name, sym)
        /\ stack' = <<Act("Set", NoNode, e, 0, sym)>>
        /\ ret' = Nil
        /\ UNCHANGED <<prog, heap, Frame, Err, panicked, steps, lexer, tokens, parser>>

\* e.Assign(name, sym)
CallAssign ==
    \E e \in 1 .. Len(envs), sym \in ScopeSymbols :
        /\ envs' = Assign(envs, e, sym.Name, sym)
        /\ stack' = <<Act("Assign", NoNode, e, 0, sym)>>
        /\ ret' = Nil
        /\ UNCHANGED <<prog, heap, Frame, Err, panicked, steps, lexer, tokens, parser>>

\* e.Get(name); ret is the value found, nil when name is unbound
CallGet ==
    \E e \in 1 .. Len(envs), name \in ScopeNames :
        /\ stack' = <<Act("Get", NoNode, e, 0, Symbol(name, Nil, FALSE))>>
        /\ ret' = IF Get(envs, e, name).ok THEN Get(envs, e, name).sym.Value ELSE Nil
        /\ UNCHANGED <<prog, envs, heap, Frame, Err, panicked, steps, lexer, tokens, parser>>

EnvNext == CallSet \/ CallAssign \/ CallGet

EnvSpec == EnvInit /\ [][EnvNext]_vars

-----------------------------------------------------------------------------
(* The token loop alone: a source text is lexed to its end, token by      *)
(* token, the way the parser fetches: NextToken(), then NextChar().       *)

\* the texts of 1 .. n characters drawn from chars
SourcesOver(chars, n) == UNION {[1 .. k -> chars] : k \in 1 .. n}

OperatorChars == {"+", "-", "*", "/", "%", ">", "<", "=", "!", "&", "|", "^", "~", ";"}

NumberChars == {"0", "1", ".", ";"}

\* one text for each remaining branch of NextToken
OtherSources ==
    {<<"i", "f", " ", "a", "1", "\n", "_", "b">>,
     <<"\"", "a", "\\", "n", "\"", "+">>,
     <<"'", "a">>,
     <<BQ, "\\", BQ>>,
     <<"\"", "\\">>,
     <<"\"", "\\", "q", "\"">>,
     <<"1", "@", "2">>,
     <<"a", "/", "/", "b", "\n", "c">>,
     <<"/", "*", "a", "*", "/", "1">>,
     <<"/", "*", "a">>,
     <<"1", " ", ".", "5">>,
     <<"(", "a", "[", "0", "]", ",", "{", "}", ")">>}

LexSources ==
    SourcesOver(OperatorChars, MaxLen) \cup SourcesOver(NumberChars, MaxLen + 1)
        \cup OtherSources

LexInit ==
    /\ \E input \in LexSources : lexer = NewLexer(input)
    /\ tokens = <<>>
    /\ parser = NoParser
    /\ prog = <<>>
    /\ stack = <<>>
    /\ ret = Nil
    /\ envs = <<>>
    /\ heap = <<>>
    /\ Frame = RootFrame
    /\ Err = NoErr
    /\ panicked = FALSE
    /\ steps = 0

\* tok, err := l.NextToken(); l.NextChar(), until the EOF token
FetchToken ==
    /\ ~(tokens # <<>> /\ tokens[Len(tokens)].tok.Type = "EOF")
    /\ LET r == NextToken(lexer) IN
        /\ tokens' = Append(tokens, [tok |-> r.tok, err |-> r.err])
        /\ lexer' = NextChar(r.l)
    /\ UNCHANGED <<prog, stack, ret, envs, heap, Frame, Err, panicked, steps, parser>>

LexNext == FetchToken

LexSpec == LexInit /\ [][LexNext]_vars

-----------------------------------------------------------------------------
(* The parser alone: NewParser on the lexer of a source text, then        *)
(* ParseProgram, one statement of its loop at a time.                      *)

\* the words of a text, each followed by a space
RECURSIVE Spaced(_)
Spaced(words) == IF words = <<>> THEN <<>> ELSE Head(words) \o <<" ">> \o Spaced(Tail(words))

\* the binary infix operators, as they are written
BinaryOperators ==
    {<<"&", "&">>, <<"|", "|">>, <<"^">>, <<"&">>, <<"|">>, <<"<", "<">>, <<">", ">">>,
     <<"=", "=">>, <<"!", "=">>, <<"<">>, <<"<", "=">>, <<">">>, <<">", "=">>,
     <<"+">>, <<"-">>, <<"*">>, <<"/">>, <<"%">>}

\* one operator of each precedence, and a second one for the additive and multiplicative ones
LadderOperators ==
    {<<"|", "|">>, <<"^">>, <<"=", "=">>, <<"<">>, <<"+">>, <<"-">>, <<"*">>, <<"/">>}

ChainOperands == <<"a", "b", "c", "d">>

\* the operator sequences of the chains: any two operators, three ladder operators
Chains == [1 .. 2 -> BinaryOperators] \cup [1 .. 3 -> LadderOperators]

\* a op1 b op2 c ... ;
RECURSIVE ChainFrom(_, _)
ChainFrom(ops, i) ==
    IF i > Len(ops) THEN <<";">> ELSE ops[i] \o <<ChainOperands[i + 1]>> \o ChainFrom(ops, i + 1)

ChainSource(ops) == <<ChainOperands[1]>> \o ChainFrom(ops, 1)

InfixSources == {ChainSource(ops) : ops \in Chains}

PrefixOperators == {<<"-">>, <<"!">>, <<"~">>, <<"+">>, <<"+", "+">>, <<"-", "-">>}

\* pre a op b ;
PrefixSource(pre, op) == pre \o <<"a">> \o op \o <<"b", ";">>

PrefixSources == {PrefixSource(pre, op) : pre \in PrefixOperators, op \in BinaryOperators}

\* target expressions: the two lvalue forms, the same in parentheses, and other forms
LvalueTargets == {<<"a">>, <<"a", "[", "0", "]">>}

GroupedTargets == {<<"(", "a", ")">>, <<"(", "(", "a", ")", ")">>, <<"(", "a", "[", "0", "]", ")">>}

OtherTargets ==
    {<<"1">>, <<"(", "1", ")">>, <<"t", "r", "u", "e">>, <<"f", "(", ")">>, <<"[", "1", "]">>,
     <<"n", "u", "l", "l">>, <<"'", "s", "'">>}

CompoundTargets == {<<"-", "a">>, <<"a", "+", "b">>, <<"a", "+", "+">>}

Targets == LvalueTargets \cup GroupedTargets \cup OtherTargets \cup CompoundTargets

AssignmentOperators == {<<"=">>, <<"+", "=">>, <<"<", "<", "=">>, <<"%", "=">>}

IncDecOperators == {<<"+", "+">>, <<"-", "-">>}

\* t = 1;  t += 1;
AssignmentSource(t, op) == t \o <<" ">> \o op \o <<" ", "1", ";">>

\* ++t;
PrefixIncDecSource(op, t) == op \o t \o <<";">>

\* t++;
PostfixIncDecSource(t, op) == t \o op \o <<";">>

TargetSources ==
    {AssignmentSource(t, op) : t \in Targets, op \in AssignmentOperators}
        \cup {PrefixIncDecSource(op, t) : op \in IncDecOperators, t \in Targets}
        \cup {PostfixIncDecSource(t, op) : t \in Targets, op \in IncDecOperators}

\* statements of every kind, word by word
Statements ==
    {<<<<"1">>, <<"+">>, <<"2">>, <<";">>>>,
     <<<<"(">>, <<"1">>, <<")">>, <<";">>>>,
     <<<<"a">>, <<"=">>, <<"1">>, <<";">>>>,
     <<<<"a">>, <<"+", "=">>, <<"1">>, <<";">>>>,
     <<<<"-">>, <<"1">>, <<";">>>>,
     <<<<";">>, <<";">>, <<"1">>, <<";">>>>,
     <<<<"1">>, <<";">>, <<"2", ".", "5">>, <<";">>>>,
     <<<<"f", "u", "n", "c">>, <<"f">>, <<"(">>, <<"a">>, <<"=">>, <<"1">>, <<")">>, <<"1">>,
       <<";">>>>,
     <<<<"f", "u", "n", "c">>, <<"f">>, <<"(">>, <<"a">>, <<",">>, <<"b">>, <<")">>, <<"a">>,
       <<";">>>>,
     <<<<"i", "f">>, <<"1">>, <<"2">>, <<"e", "l", "s", "e">>, <<"3">>, <<";">>>>,
     <<<<"i", "f">>, <<"1">>, <<"2">>, <<";">>>>,
     <<<<"[">>, <<"1">>, <<",">>, <<"2">>, <<"]">>, <<";">>>>,
     <<<<"[">>, <<"]">>, <<";">>>>,
     <<<<"f">>, <<"(">>, <<"1">>, <<",">>, <<"2">>, <<")">>, <<";">>>>,
     <<<<"{">>, <<"1">>, <<";">>, <<"2">>, <<"}">>, <<";">>>>,
     <<<<"f", "o", "r">>, <<"v", "a", "r">>, <<"i">>, <<"=">>, <<"0">>, <<";">>, <<"i">>, <<";">>,
       <<"i">>, <<"+", "+">>, <<"{">>, <<"}">>, <<";">>>>,
     <<<<"r", "e", "t", "u", "r", "n">>, <<"1">>, <<";">>>>,
     <<<<"c", "o", "n", "s", "t">>, <<"a">>, <<"=">>, <<"1">>, <<";">>>>,
     <<<<"a">>, <<"[">>, <<"0">>, <<"]">>, <<";">>>>,
     <<<<"a">>, <<"+", "+">>, <<";">>>>,
     <<<<"+", "+">>, <<"a">>, <<";">>>>}

\* words the lexer reports an error for: an illegal character, a second dot, an open string
BadWords == {<<"@">>, <<"1", ".", ".">>, <<"\"", "a">>}

\* the statement with the bad word put before its word i + 1
Broken(words, i, bad) == SubSeq(words, 1, i) \o <<bad>> \o SubSeq(words, i + 1, Len(words))

BrokenSources ==
    UNION {{Spaced(Broken(words, i, bad)) : i \in 0 .. Len(words), bad \in BadWords} :
              words \in Statements}

ParseSources ==
    InfixSources \cup PrefixSources \cup TargetSources \cup BrokenSources
        \cup {Spaced(words) : words \in Statements}

ParseInit ==
    /\ \E input \in ParseSources : lexer = NewLexer(input)
    /\ tokens = <<>>
    /\ parser = NoParser
    /\ prog = <<>>
    /\ stack = <<>>
    /\ ret = Nil
    /\ envs = <<>>
    /\ heap = <<>>
    /\ Frame = RootFrame
    /\ Err = NoErr
    /\ panicked = FALSE
    /\ steps = 0

\* the Parser that the variables hold
TheParser ==
    [L |-> lexer, CurrToken |-> parser.CurrToken, NextToken |-> parser.NextToken,
     Err |-> parser.Err, panicked |-> panicked, Fetched |-> tokens]

\* the variables after a step that left the Parser p, the caller at pc, the statements of the
\* program so far, and the program returned
Parsed(p, pc, statements, program) ==
    /\ lexer' = p.L
    /\ tokens' = p.Fetched
    /\ panicked' = p.panicked
    /\ parser' = [CurrToken |-> p.CurrToken, NextToken |-> p.NextToken, Err |-> p.Err,
                  pc |-> IF p.panicked THEN "panic" ELSE pc,
                  Statements |-> statements, program |-> program]
    /\ UNCHANGED <<prog, stack, ret, envs, heap, Frame, Err, steps>>

\* the variables after a turn of the loop of ParseProgram
Turned(t) == Parsed(t.p, IF t.returned THEN "done" ELSE "loop", t.Statements, t.program)

\* the variables after NewParser returned r
Constructed(r) == Parsed(r.p, IF r.nil THEN "done" ELSE "ParseProgram", <<>>, NoNode)

\* p, err := NewParser(l)
CallNewParser ==
    /\ parser.pc = "NewParser"
    /\ Constructed(NewParser(lexer))

\* p.ParseProgram() up to its loop
CallParseProgram ==
    /\ parser.pc = "ParseProgram"
    /\ Parsed(CopyPosStart(TheParser), "loop", <<>>, NoNode)

\* one turn of the loop of ParseProgram that parses a statement: it is added, or nil is returned
ParseProgramStatement ==
    /\ parser.pc = "loop"
    /\ parser.CurrToken.Type # "EOF"
    /\ parser.Err = NoErr
    /\ Turned(ParseProgramTurn(TheParser, parser.Statements))

\* the loop of ParseProgram ends: at the EOF token with the program, at an error with nil
ParseProgramReturn ==
    /\ parser.pc = "loop"
    /\ parser.CurrToken.Type = "EOF" \/ parser.Err # NoErr
    /\ Turned(ParseProgramTurn(TheParser, parser.Statements))

ParseNext ==
    \/ CallNewParser
    \/ CallParseProgram
    \/ ParseProgramStatement
    \/ ParseProgramReturn

ParseSpec == ParseInit /\ [][ParseNext]_vars

-----------------------------------------------------------------------------
(* Properties.                                                             *)

\* every binding of E2 is a binding of E1, with the same symbol (new scopes may exist, empty)
SameBindings(E1, E2) ==
    \A e \in DOMAIN E2 :
        E2[e].Store = IF e \in DOMAIN E1 THEN E1[e].Store ELSE EmptyStore

\* every List / String of H1 has the same contents in H2
SameObjects(H1, H2) == \A r \in DOMAIN H1 : r \in DOMAIN H2 /\ H2[r] = H1[r]

\* C1: once the error state is set, no later step creates or changes an Environment
\* binding or mutates a List or a String.
NoSideEffectAfterError ==
    [][Err # NoErr => SameBindings(envs, envs') /\ SameObjects(heap, heap')]_vars

\* C2: the error recorded when Eval returns is the first error raised: once the error
\* state is set, no later step replaces it.
FirstErrorKept == [][Err # NoErr => Err' = Err]_vars

\* C3: Eval never aborts the process: every failure is reported through the error state.
NeverAborts == ~panicked

\* a call expression finishes: its activation returns to its caller
CallFinishes == AtNode("CallExpression") /\ Len(stack') < Len(stack)

\* C4: when a call expression finishes, normally or because of an error in the callee,
\* the current Frame is the Frame that was current immediately before the call.
FrameRestoredAfterCall == [][CallFinishes => Frame' = Top.loc.frame0]_vars

\* the identifier an assignment target is rooted at ("" when there is none)
RECURSIVE RootName(_)
RootName(t) ==
    CASE t.k = "IdentifierExpression" -> t.Name
      [] t.k = "IndexExpression" -> RootName(t.Target)
      [] t.k = "GroupedExpression" -> RootName(t.Expr)
      [] OTHER -> ""

UpdateKinds ==
    {"VarAssignmentExpression", "CompoundAssignmentExpression",
     "PrefixUnaryIncDecExpression", "PostfixUnaryIncDecExpression"}

\* the target of an assignment, compound assignment or inc/dec node
UpdateTarget(n) ==
    CASE n.k \in {"VarAssignmentExpression", "CompoundAssignmentExpression"} -> n.Name
      [] n.k = "PrefixUnaryIncDecExpression" -> n.Right
      [] n.k = "PostfixUnaryIncDecExpression" -> n.Left

\* the step ends an update whose target is rooted at a name that resolves to a constant
UpdateOfConstantEnds ==
    /\ Running
    /\ Top.fn = "Eval"
    /\ Top.node.k \in UpdateKinds
    /\ Len(stack') < Len(stack)
    /\ LET g == Get(envs, Top.env, RootName(UpdateTarget(Top.node)))
       IN g.ok /\ g.sym.IsConst

\* C5: an assignment, compound assignment or inc/dec whose target is a constant name, or an
\* index chain rooted at it, fails with VariableError and changes no binding and no value.
ConstantKept ==
    [][UpdateOfConstantEnds =>
          Err'.kind = "VariableError" /\ envs' = envs /\ SameObjects(heap, heap')]_vars

\* all elements of every List have one runtime type
Homogeneous(H) ==
    \A r \in DOMAIN H :
        H[r].t = "LIST" =>
            \A i, j \in DOMAIN H[r].Elements : Type(H[r].Elements[i]) = Type(H[r].Elements[j])

MixedTypeErrors ==
    {<<"list elements must have consistent types">>,
     <<"cannot concatenate lists with different element types">>}

\* the step ends an element assignment that stores a value of another type than the first
\* element's into an existing position of a List
MixingSetEnds ==
    /\ AtNode("VarAssignmentExpression")
    /\ Top.node.Name.k = "IndexExpression"
    /\ Top.pc = 4
    /\ ~Failed
    /\ ret # Nil
    /\ Top.loc.target.t = "LIST"
    /\ LET elems == heap[Top.loc.target.ref].Elements
           real == RealIndex(Top.loc.index.i, Len(elems))
       IN real >= 0 /\ real < Len(elems) /\ Type(ret) # Type(elems[1])

\* C6: every List has elements of one runtime type; an operation that would mix types is
\* rejected with an error and leaves every existing List unchanged.
ListsHomogeneous ==
    /\ []Homogeneous(heap)
    /\ [][MixingSetEnds => Err'.kind = "TypeError"]_vars
    /\ [][(Err' # Err /\ Err'.msg \in MixedTypeErrors) => SameObjects(heap, heap')]_vars

\* C6 witness: an element assignment of another type was rejected and the List is as before
MixedSetRejected ==
    /\ Err # NoErr
    /\ Err.msg = <<"list elements must have consistent types">>
    /\ \E r \in DOMAIN heap :
          /\ heap[r].t = "LIST"
          /\ Len(heap[r].Elements) = 2
          /\ envs[1].Store["l"].Value = Ref("LIST", r)
    /\ stack = <<>>

\* C7: a Return-wrapper is never bound to a variable, stored in a List, or used as an
\* operand or an argument (a return unwinds to the call, which unwraps it).
NoWrapperStored ==
    /\ \A e \in DOMAIN envs : \A x \in DOMAIN envs[e].Store :
            ~IsReturnValue(envs[e].Store[x].Value)
    /\ \A r \in DOMAIN heap :
            heap[r].t = "LIST" => \A i \in DOMAIN heap[r].Elements : ~IsReturnValue(heap[r].Elements[i])
    /\ \A i \in DOMAIN stack :
            /\ (stack[i].node.k = "InfixExpression" /\ stack[i].pc = 2) => ~IsReturnValue(stack[i].loc.left)
            /\ (stack[i].node.k = "CallExpression" /\ stack[i].pc >= 2) =>
                    \A a \in DOMAIN stack[i].loc.argument : ~IsReturnValue(stack[i].loc.argument[a])

\* the step ends the evaluation of a return statement while no function call is active
ReturnOutsideFunctionEnds ==
    /\ Running
    /\ Top.node.k = "ReturnStatement"
    /\ AtRootFrame(Frame)
    /\ Err = NoErr
    /\ Len(stack') < Len(stack)

\* C8: a return statement evaluated while no function call is active sets a SyntaxError
\* (and so ends the program: evalProgram stops at the first error).
TopLevelReturnRejected == [][ReturnOutsideFunctionEnds => Err'.kind = "SyntaxError"]_vars

\* the step ends x++ / ++x / x-- / --x on an identifier x whose value was read
IncDecOnIdentifierEnds ==
    /\ Running
    /\ Top.fn = "Eval"
    /\ Top.node.k \in {"PrefixUnaryIncDecExpression", "PostfixUnaryIncDecExpression"}
    /\ UpdateTarget(Top.node).k = "IdentifierExpression"
    /\ Top.pc = 1
    /\ ~Failed

\* C9: x++, ++x, x--, --x leave every Environment as x = x + 1 (x = x - 1) does: the nearest
\* enclosing binding of x is updated and no binding is created in the current scope.
IncDecIsAssignment ==
    [][IncDecOnIdentifierEnds =>
          LET name == UpdateTarget(Top.node).Name
              op == IF Top.node.Operator = "++" THEN "+" ELSE "-"
              out == evalInfixOperator(op, ret, IntV(1), heap)
          IN out.st = "ok" => envs' = Assign(envs, Top.env, name, Symbol(name, out.v, FALSE))]_vars

\* the scopes visible from e: e and its outer scopes
RECURSIVE Chain(_, _)
Chain(E, e) == IF e = 0 THEN {} ELSE {e} \cup Chain(E, E[e].Outer)

\* the activation is a call expression whose Function body is running
IsRunningFunction(a) == a.fn = "Eval" /\ a.node.k = "CallExpression" /\ a.pc = 3

\* activation j belongs to the body of the call i: no other function call lies between
InBody(i, j) == i < j /\ \A m \in (i + 1) .. (j - 1) : ~IsRunningFunction(stack[m])

\* C10: in a Function's body, a scope is visible only if it was created for the call (the
\* parameters and locals) or belongs to the chain captured at the declaration; the caller's
\* scopes are not visible.
LexicalScoping ==
    \A i \in DOMAIN stack :
        IsRunningFunction(stack[i]) =>
            \A j \in DOMAIN stack :
                InBody(i, j) =>
                    \A e \in Chain(envs, stack[j].env) :
                        e >= stack[i + 1].env \/ e \in Chain(envs, stack[i].loc.fn.Env)

\* C10 witness: the callee looks up a name that the caller's chain binds in a scope outside
\* the captured chain, and does not find that binding
CallerBindingNotVisible ==
    /\ AtNode("IdentifierExpression")
    /\ \E i \in DOMAIN stack :
          /\ IsRunningFunction(stack[i])
          /\ InBody(i, Len(stack))
          /\ LET c == Get(envs, stack[i].env, Top.node.Name)
                 g == Get(envs, Top.env, Top.node.Name)
             IN /\ c.ok
                /\ c.at \notin Chain(envs, stack[i].loc.fn.Env)
                /\ (g.ok => g.at # c.at)

\* the value bound to x in the root environment
RootValue(x) == envs[1].Store[x].Value

\* the results of the calls cs on a counter that starts at n: inc (0) adds one and returns
\* the new count, get (1) returns the count
RECURSIVE CounterResults(_, _)
CounterResults(cs, n) ==
    IF cs = <<>> THEN <<>>
    ELSE LET m == IF Head(cs) = 0 THEN n + 1 ELSE n
         IN <<IntV(m)>> \o CounterResults(Tail(cs), m)

RootIs(x, n) == x \in DOMAIN envs[1].Store /\ RootValue(x) = IntV(n)

\* C12: a name declared inside a block, an if-branch or a for-loop is not resolvable after
\* the construct, a declaration of x inside leaves the outer x as it was, and an assignment
\* made inside to the outer x is in effect after the construct.
ScopeExitKept ==
    Done =>
        /\ \A c \in AssigningConstructs :
              prog = ScopeExitProgram(c) =>
                  /\ ~panicked
                  /\ RootIs("x", 5) /\ RootIs("z", 5)
                  /\ "y" \notin DOMAIN envs[1].Store
                  /\ Err.kind = "VariableError" /\ Err.msg = <<"undefined variable", "y">>
        /\ \A c \in ShadowingConstructs :
              prog = ScopeExitProgram(c) => ~panicked /\ RootIs("x", 1)

\* C13: every iteration runs body and update in an environment of its own: a name declared
\* by the body or the update in one iteration is not bound in the next one (declaring it
\* again is no error) and the condition does not see it, so the loop makes its two rounds.
IterationsAreSeparate ==
    Done =>
        \A u \in IterationUpdates, b \in IterationBodies :
            prog = IterationProgram(u, b) => Err = NoErr /\ ~panicked /\ RootIs("n", 2)

\* the counters of initializer, condition, body and update evaluations
Counted(ni, nc, nb, nu) == RootIs("ni", ni) /\ RootIs("nc", nc) /\ RootIs("nb", nb) /\ RootIs("nu", nu)

\* the step ends a for statement right after its condition gave a value that is not a Bool
ForConditionNotBool ==
    /\ AtNode("ForStatement")
    /\ Top.pc = 2
    /\ ~Failed
    /\ ret.t # "Bool"

CallChecksArity ==
    /\ AtNode("CallExpression")
    /\ Top.pc = 1
    /\ ~Failed
    /\ ret.t \in {"Function", "BuiltinFunction"}

\* P - D <= n <= P for the callee fn and the argument list args
InArityRange(fn, args) ==
    LET P == ParamLen(fn)
        D == DefaultLen(fn)
        n == ArgLen(args)
    IN P - D <= n /\ n <= P

\* the message of the ArgumentError names the acceptable range and the number supplied
RangeMessage(fn, args) ==
    LET P == ToString(ParamLen(fn))
        least == ParamLen(fn) - DefaultLen(fn)
        n == ToString(ArgLen(args))
    IN IF DefaultLen(fn) = 0 THEN <<"expected parameters", P, n>>
       ELSE IF least = 1 THEN <<"expected between 1 parameter and", P, n>>
       ELSE <<"expected between", ToString(least), P, n>>

\* C15: a call whose number n of written arguments is outside P - D <= n <= P sets an
\* ArgumentError that names the range and ends at once, so no argument, default or body is
\* evaluated; arguments and body of a Function or builtin are evaluated only within the range.
ArityChecked ==
    /\ [][(CallChecksArity /\ ~InArityRange(ret, Top.node.Argument)) =>
            /\ Err'.kind = "ArgumentError"
            /\ Err'.msg = RangeMessage(ret, Top.node.Argument)
            /\ stack' = Rest
            /\ envs' = envs /\ heap' = heap /\ Frame' = Frame]_vars
    /\ [](\A i \in DOMAIN stack :
            (stack[i].fn = "Eval" /\ stack[i].node.k = "CallExpression" /\ stack[i].pc >= 2) =>
                InArityRange(stack[i].loc.fn, stack[i].node.Argument))

\* C15 witness: a call with three arguments of a function with two parameters, both with
\* defaults, was rejected
TooManyArgumentsRejected ==
    /\ Err.kind = "ArgumentError"
    /\ Err.msg = <<"expected between", "0", "2", "3">>

\* the argument list writes an argument at position i
Written(args, i) == i <= Len(args) /\ args[i] # NoNode

\* the value parameter i of f is to be bound to: the argument written at its position, else
\* its default (5 for a; for b the count 1 plus the d of the caller's block, 30)
ExpectedParameter(args, i) ==
    IF Written(args, i) THEN IntV(args[i].Value) ELSE IF i = 1 THEN IntV(5) ELSE IntV(31)

\* C16: in every call that passes the arity check each parameter is bound to the argument
\* written at its position or, when that is a placeholder or omitted, to the value of its
\* own default expression, evaluated once, at call time, in the caller's environment.
DefaultsBound ==
    Done =>
        \A fn \in DefaultFuncs, args \in DefaultArgumentLists :
            (prog = DefaultProgram(fn, args) /\ InArityRange(FunctionV("f", fn.Parameter, fn.Body, 1), args)) =>
                /\ ~panicked
                /\ Err = NoErr
                /\ RootValue("r").t = "LIST"
                /\ heap[RootValue("r").ref].Elements =
                        <<ExpectedParameter(args, 1), ExpectedParameter(args, 2)>>
                /\ RootIs("n", IF Written(args, 2) THEN 0 ELSE 1)

\* the value of a left operand of BoolLefts
LeftValue(a) == a \in {BoolE(TRUE), Inf(IntE(0), "<", IntE(1))}

\* the left operand alone determines a op b
Determined(a, op) == (op = "&&" /\ ~LeftValue(a)) \/ (op = "||" /\ LeftValue(a))

\* C17: in a && b with a false and in a || b with a true, b is not evaluated (n stays 0, no error
\* is raised) and the result is the value of a; in every other case with a Bool a, b is evaluated
\* exactly once (n = 1) and the result, or the error, is the one b gives.
ShortCircuit ==
    Done =>
        \A a \in BoolLefts, op \in LogicOps, b \in CountingRights :
            prog = ShortCircuitProgram(a, op, b) =>
                /\ ~panicked
                /\ IF Determined(a, op)
                   THEN /\ Err = NoErr
                        /\ RootIs("n", 0)
                        /\ "r" \in DOMAIN envs[1].Store /\ RootValue("r") = BoolV(LeftValue(a))
                   ELSE /\ RootIs("n", 1)
                        /\ CASE b = CountTrue ->
                                    Err = NoErr /\ "r" \in DOMAIN envs[1].Store /\ RootValue("r") = BoolV(TRUE)
                             [] b = CountFalse ->
                                    Err = NoErr /\ "r" \in DOMAIN envs[1].Store /\ RootValue("r") = BoolV(FALSE)
                             [] b = CountFail -> Err.kind = "MathError"
                             [] b = CountInt -> Err.kind = "OperationError"

\* false && ((n = n + 1) / 0 == 0) has ended: r is false, n is 0, no error
FailingRightSkipped ==
    /\ Done
    /\ prog = ShortCircuitProgram(BoolE(FALSE), "&&", CountFail)
    /\ Err = NoErr
    /\ RootIs("n", 0)
    /\ "r" \in DOMAIN envs[1].Store /\ RootValue("r") = BoolV(FALSE)

\* the value the literal a evaluates to
DividendValue(a) == IF a.k = "IntExpression" THEN IntV(a.Value) ELSE FloatV(a.Value.n, a.Value.d)

\* C18: a division or a modulo by an Int or Float zero, infix or through /= or %=, with an Int or
\* a Float on the left, ends with a MathError: the process has not aborted, and no value was
\* produced (r is not declared, x and l[0] keep the dividend).
DivisionByZeroIsMathError ==
    Done =>
        \A form \in DivisionForms, a \in Dividends, op \in {"/", "%"}, z \in Zeros :
            prog = DivisionProgram(form, a, op, z) =>
                /\ ~panicked
                /\ Err.kind = "MathError"
                /\ Err.msg = <<"division by zero">>
                /\ CASE form = "infix" -> "r" \notin DOMAIN envs[1].Store
                     [] form = "identifier" -> RootValue("x") = DividendValue(a)
                     [] form = "element" -> heap[RootValue("l").ref].Elements = <<DividendValue(a)>>

\* var l = [0.5]; l[0] %= 0.5 - 0.5; has ended with a MathError
FloatElementModZero ==
    /\ Done
    /\ prog = DivisionProgram("element", FloatE(1, 2), "%", Inf(FloatE(1, 2), "-", FloatE(1, 2)))
    /\ Err.kind = "MathError"
    /\ heap[RootValue("l").ref].Elements = <<FloatV(1, 2)>>

\* the elements of the list bound to l at top level
RootList == heap[RootValue("l").ref].Elements

\* [11, ..., 10 + n] as values
NumberedValues(n) == [j \in 1 .. n |-> IntV(10 + j)]

\* the position (from 1) that index i addresses in a list of length n, 0 when it addresses none
Position(n, i) ==
    IF 0 <= i /\ i < n THEN i + 1
    ELSE IF 0 - n <= i /\ i < 0 THEN i + n + 1
    ELSE 0

\* C19: in a list of length n, reading l[i] and writing l[i] = v address position i when
\* 0 <= i < n and position i + n when -n <= i < 0; every other i (every i when the list is empty)
\* sets IndexError, and the list is left as it was.
ListIndexing ==
    Done =>
        \A n \in 0 .. MaxLen, i \in (0 - MaxLen - 1) .. (MaxLen + 1) :
            /\ prog = ListReadProgram(n, i) =>
                    /\ ~panicked
                    /\ RootList = NumberedValues(n)
                    /\ IF Position(n, i) # 0
                       THEN Err = NoErr /\ RootIs("r", 10 + Position(n, i))
                       ELSE Err.kind = "IndexError" /\ "r" \notin DOMAIN envs[1].Store
            /\ prog = ListWriteProgram(n, i) =>
                    /\ ~panicked
                    /\ IF Position(n, i) # 0
                       THEN Err = NoErr /\ RootList = [NumberedValues(n) EXCEPT ![Position(n, i)] = IntV(7)]
                       ELSE Err.kind = "IndexError" /\ RootList = NumberedValues(n)

\* var l = [11, 12, 13]; l[-3] = 7; has ended with l = [7, 12, 13]
NegativeIndexWritten ==
    /\ Done
    /\ prog = ListWriteProgram(3, 0 - 3)
    /\ Err = NoErr
    /\ RootList = <<IntV(7), IntV(12), IntV(13)>>

\* the bytes of the String bound to x at top level
RootString(x) == heap[RootValue(x).ref].Value

\* C20: a String of n code points is indexed by code point for reading and for writing:
\* s[i] yields the code point at position i (i + n when negative), every other i sets
\* IndexError, and s[i] = c with a one-code-point c replaces that code point only, so that
\* len(s) is still n and s[j] is c when j is the position written and the old code point otherwise.
StringIndexingByCodePoint ==
    Done =>
        \A text \in Texts, i \in (0 - MaxLen) .. MaxLen :
            LET runes == Runes(text)
                n == Len(runes)
                pos == Position(n, i)
            IN /\ prog = StringReadProgram(text, i) =>
                    /\ ~panicked
                    /\ IF pos # 0
                       THEN Err = NoErr /\ RootString("r") = Utf8(runes[pos])
                       ELSE Err.kind = "IndexError" /\ "r" \notin DOMAIN envs[1].Store
               /\ \A c \in OneCodePoint, j \in 0 .. 1 :
                    prog = StringWriteProgram(text, i, c, j) =>
                        /\ ~panicked
                        /\ IF pos = 0
                           THEN Err.kind = "IndexError" /\ RootString("s") = text
                           ELSE j < n =>
                                    /\ Err = NoErr
                                    /\ RootIs("n", n)
                                    /\ RootString("r") = IF j + 1 = pos THEN c ELSE Utf8(runes[j + 1])

\* C21: a var, const or func declaration is rejected with VariableError exactly when its name is
\* already bound in the current scope: at top level x, g and len are, y is not; in an inner
\* scope none is, the declaration succeeds there and the bindings of the outer scope stay.
RedeclarationRejected ==
    Done =>
        \A scope \in Scopes, form \in DeclarationForms, name \in DeclaredNames :
            prog = DeclarationProgram(scope, form, name) =>
                /\ ~panicked
                /\ RootValue("x") = IntV(1)
                /\ RootValue("g").t = "Function"
                /\ RootValue("len") = BuiltinV("len")
                /\ IF scope = "top" /\ name # "y"
                   THEN Err.kind = "VariableError"
                   ELSE /\ Err = NoErr
                        /\ \E e \in 1 .. Len(envs) :
                                /\ (scope = "top") = (e = 1)
                                /\ name \in DOMAIN envs[e].Store

\* the scopes of E that define name, from e outward
DefiningScopes(E, e, name) == {d \in Chain(E, e) : name \in DOMAIN E[d].Store}

\* the innermost of them: the one every other defining scope is reached from; 0 when none
Innermost(E, e, name) ==
    IF DefiningScopes(E, e, name) = {} THEN 0
    ELSE CHOOSE d \in DefiningScopes(E, e, name) : DefiningScopes(E, e, name) \subseteq Chain(E, d)

\* C22: Assign(name, sym) replaces the binding of the innermost scope, from the current one
\* outward, that defines name and changes nothing else, nothing at all when no scope defines
\* name; Set(name, sym) writes the current scope only; and Get(name) always returns the binding
\* of the innermost scope that defines name.
EnvironmentWrites ==
    /\ [][stack' # <<>> =>
            LET call == stack'[1]
                name == call.loc.Name
                d == Innermost(envs, call.env, name)
            IN /\ call.fn = "Assign" =>
                    envs' = IF d = 0 THEN envs ELSE [envs EXCEPT ![d].Store[name] = call.loc]
               /\ call.fn = "Set" =>
                    /\ envs'[call.env].Store = (name :> call.loc) @@ envs[call.env].Store
                    /\ \A o \in 1 .. Len(envs) : o # call.env => envs'[o] = envs[o]
               /\ call.fn = "Get" =>
                    ret' = IF d = 0 THEN Nil ELSE envs[d].Store[name].Value]_vars
    /\ [](\A e \in 1 .. Len(envs), name \in ScopeNames :
            LET d == Innermost(envs, e, name)
            IN IF d = 0 THEN ~Get(envs, e, name).ok
               ELSE Get(envs, e, name).ok /\ Get(envs, e, name).sym = envs[d].Store[name])

\* scope 3 called Assign("a", 1): scope 2 holds the new binding, scopes 1 and 3 are as before
AssignedInEnclosingScope ==
    /\ stack = <<Act("Assign", NoNode, 3, 0, Symbol("a", IntV(1), FALSE))>>
    /\ "a" \notin DOMAIN envs[3].Store
    /\ "a" \in DOMAIN envs[2].Store /\ envs[2].Store["a"].Value = IntV(1)
    /\ "a" \in DOMAIN envs[1].Store /\ envs[1].Store["a"].Value = IntV(0)

\* the element a step adds to (+1) or takes from (-1)
StepDelta(step) == IF step \in {"+=", "++pre", "post++"} THEN 1 ELSE 0 - 1

\* C30: in t[i] op= v, ++t[i], --t[i], t[i]++ and t[i]-- the target t and the index i are each
\* evaluated once: n, which counts the evaluations, is 1 afterwards, and the element written is
\* the element read (l[1] for l[n = n + 1], ll[0][0] for ll[(n = n + 1) - 1][0]).
IndexTargetEvaluatedOnce ==
    Done =>
        \A step \in ElementSteps :
            /\ prog = IndexEffectProgram(step, CountedIndex) =>
                    /\ ~panicked /\ Err = NoErr
                    /\ RootIs("n", 1)
                    /\ RootList = <<IntV(10), IntV(20 + StepDelta(step)), IntV(30)>>
            /\ prog = IndexEffectProgram(step, CountedTarget) =>
                    /\ ~panicked /\ Err = NoErr
                    /\ RootIs("n", 1)
                    /\ heap[heap[RootValue("ll").ref].Elements[1].ref].Elements = <<IntV(10 + StepDelta(step))>>
                    /\ heap[heap[RootValue("ll").ref].Elements[2].ref].Elements = <<IntV(20)>>

\* the frames active when bad is evaluated d user calls deep, outermost first; len(1) fails
\* inside the builtin, one call deeper
ActiveFrames(d, bad) ==
    RootFrame
        \o (IF d = 2 THEN <<<<"function", "g">>>> ELSE <<>>)
        \o (IF d >= 1 THEN <<<<"function", "f">>>> ELSE <<>>)
        \o (IF bad = Call(Id("len"), <<IntE(1)>>) THEN <<<<"builtin", "len">>>> ELSE <<>>)

\* C26: an error raised while d calls are active carries the chain of the d + 1 active frames,
\* and its traceback is the header, one block per frame with the outermost first and the
\* innermost last, then one line with the kind of the error.
ErrorCarriesFrames ==
    Done =>
        \A d \in Depths, bad \in Raisers :
            prog = RaisingProgram(d, bad) =>
                /\ ~panicked
                /\ Err # NoErr
                /\ Err.frame = ActiveFrames(d, bad)
                /\ Len(Traceback(Err)) = Len(ActiveFrames(d, bad)) + 2
                /\ \A i \in 1 .. Len(ActiveFrames(d, bad)) :
                        Traceback(Err)[i + 1] = <<"File", "in">> \o ActiveFrames(d, bad)[i]
                /\ Traceback(Err)[Len(Traceback(Err))][1] = Err.kind

\* the operator token types
OperatorTypes == {Operators[op] : op \in DOMAIN Operators}

\* the keys of the operator table that the text continues with at idx
OperatorsAt(input, idx) ==
    {n \in 1 .. Len(input) - idx : Join(SubSeq(input, idx + 1, idx + n)) \in DOMAIN Operators}

\* the longest of them
LongestOperatorAt(input, idx) ==
    LET n == CHOOSE n \in OperatorsAt(input, idx) : \A m \in OperatorsAt(input, idx) : m <= n
    IN  SubSeq(input, idx + 1, idx + n)

\* the lexer stands at an operator character that does not open a comment
AtOperator(l) ==
    /\ isOperator(CurrChar(l))
    /\ ~(CurrChar(l) = "/" /\ PeekChar(l) \in {"/", "*"})

LastToken == tokens[Len(tokens)]

\* C25: a fetch that starts at an operator character yields the operator token of the longest
\* key of the operator table the text continues with, without an error, and leaves the lexer at
\* the character after that key; every operator token fetched has the type of its literal
MaximalMunch ==
    /\ [][AtOperator(lexer) =>
            LET t == tokens'[Len(tokens')] IN
            /\ t.err = NoErr
            /\ t.tok.Literal = LongestOperatorAt(lexer.Input, lexer.CurrPos)
            /\ t.tok.PosStart = lexer.CurrPos
            /\ lexer'.CurrPos = lexer.CurrPos + Len(t.tok.Literal)]_vars
    /\ [](tokens # <<>> /\ LastToken.tok.Type \in OperatorTypes =>
            /\ LastToken.tok.Type = Operators[Join(LastToken.tok.Literal)]
            /\ LastToken.tok.Literal = LongestOperatorAt(lexer.Input, LastToken.tok.PosStart)
            /\ lexer.CurrPos = LastToken.tok.PosStart + Len(LastToken.tok.Literal))

\* C25 witness: "=>" has been lexed as "=" followed by ">", and ">=" as one token
EqualThenGreater ==
    \/ /\ lexer.Input = <<"=", ">">>
       /\ Len(tokens) = 2
       /\ tokens[1].tok = Token("EQUAL", <<"=">>, 0, 1)
       /\ tokens[2].tok = Token("GT", <<">">>, 1, 2)
    \/ /\ lexer.Input = <<">", "=">>
       /\ Len(tokens) = 1
       /\ tokens[1].tok = Token("GTE", <<">", "=">>, 0, 2)

\* the run of digits and dots the text continues with at idx
RECURSIVE NumberRun(_, _)
NumberRun(input, idx) ==
    IF isNumber(CharAt(input, idx)) \/ CharAt(input, idx) = "."
    THEN <<CharAt(input, idx)>> \o NumberRun(input, idx + 1)
    ELSE <<>>

Dots(run) == Cardinality({i \in DOMAIN run : run[i] = "."})

AllDigits(run) == run # <<>> /\ \A i \in DOMAIN run : isNumber(run[i])

\* C28: an INT literal is a run of digits; a FLOAT literal is digits, one dot and one or more
\* digits; a number with a second dot yields an IllegalTokenError
NumberTokens ==
    tokens # <<>> =>
        LET t == LastToken.tok
            run == NumberRun(lexer.Input, t.PosStart)
        IN  /\ t.Type = "INT" => AllDigits(t.Literal)
            /\ t.Type = "FLOAT" =>
                \E d \in DOMAIN t.Literal :
                    /\ t.Literal[d] = "."
                    /\ AllDigits(SubSeq(t.Literal, 1, d - 1))
                    /\ AllDigits(SubSeq(t.Literal, d + 1, Len(t.Literal)))
            /\ t.PosStart # NilPos /\ isNumber(CharAt(lexer.Input, t.PosStart)) /\ Dots(run) > 1 =>
                LastToken.err # NoErr /\ LastToken.err.kind = "IllegalTokenError"

\* the nodes directly below a node, in the order they are written
Children(node) ==
    CASE node.k = "Program" -> node.Statements
      [] node.k = "ExpressionStatement" -> <<node.Expr>>
      [] node.k = "ForStatement" -> <<node.Initialization, node.Condition, node.Update, node.Body>>
      [] node.k = "FunctionDeclarationStatement" ->
            [i \in DOMAIN node.Parameter |-> node.Parameter[i].DefaultValue] \o <<node.Body>>
      [] node.k = "ReturnStatement" -> <<node.ReturnValue>>
      [] node.k = "ListExpression" -> node.Value
      [] node.k = "GroupedExpression" -> <<node.Expr>>
      [] node.k = "VarInitializationExpression" -> <<node.Value>>
      [] node.k = "VarAssignmentExpression" -> <<node.Name, node.Value>>
      [] node.k = "CompoundAssignmentExpression" -> <<node.Name, node.Right>>
      [] node.k = "PrefixExpression" -> <<node.Value>>
      [] node.k = "PrefixUnaryIncDecExpression" -> <<node.Right>>
      [] node.k = "PostfixUnaryIncDecExpression" -> <<node.Left>>
      [] node.k = "InfixExpression" -> <<node.Left, node.Right>>
      [] node.k = "BlockExpression" -> node.Statements
      [] node.k = "IfExpression" -> <<node.Condition, node.Consequence, node.Alternative>>
      [] node.k = "CallExpression" -> <<node.Function>> \o node.Argument
      [] node.k = "IndexExpression" -> <<node.Target, node.Index>>
      [] OTHER -> <<>>

\* the target expression of a node that assigns, and whether the node has one
HasTarget(node) ==
    node.k \in {"VarAssignmentExpression", "CompoundAssignmentExpression",
                "PrefixUnaryIncDecExpression", "PostfixUnaryIncDecExpression"}

TargetOf(node) ==
    CASE node.k \in {"VarAssignmentExpression", "CompoundAssignmentExpression"} -> node.Name
      [] node.k = "PrefixUnaryIncDecExpression" -> node.Right
      [] node.k = "PostfixUnaryIncDecExpression" -> node.Left

\* every assigning node at or below this one has an Identifier or an Index as its target
RECURSIVE TargetsAreLvalues(_)
TargetsAreLvalues(node) ==
    /\ HasTarget(node) => TargetOf(node).k \in {"IdentifierExpression", "IndexExpression"}
    /\ \A i \in DOMAIN Children(node) : TargetsAreLvalues(Children(node)[i])

\* the sources that assign to a target that is neither an Identifier nor an Index
NotLvalueSources ==
    {AssignmentSource(t, op) : t \in Targets \ LvalueTargets, op \in AssignmentOperators}
        \cup {PrefixIncDecSource(op, t) : op \in IncDecOperators, t \in GroupedTargets \cup OtherTargets}
        \cup {PostfixIncDecSource(t, op) : t \in GroupedTargets \cup OtherTargets, op \in IncDecOperators}

\* C23: every assignment, compound assignment and ++/-- node of a parsed program has an
\* Identifier or an Index as its target, and a source that assigns to any other form of
\* expression ends with a SyntaxError and no program
LvalueTargetsOnly ==
    /\ parser.program # NoNode => TargetsAreLvalues(parser.program)
    /\ parser.pc = "done" /\ lexer.Input \in NotLvalueSources =>
            parser.program = NoNode /\ parser.Err.kind = "SyntaxError"

\* the precedence ladder of the binary operators, lowest first
Ladder(op) ==
    CASE op \in {"&&", "||"} -> 1
      [] op \in {"&", "|", "^", "<<", ">>"} -> 2
      [] op \in {"==", "!="} -> 3
      [] op \in {"<", "<=", ">", ">="} -> 4
      [] op \in {"+", "-"} -> 5
      [] op \in {"*", "/", "%"} -> 6

\* below an infix node, a left operand that is an infix node has an operator at least as high,
\* and a right operand that is one has a strictly higher operator
RECURSIVE GroupedByLadder(_)
GroupedByLadder(node) ==
    node.k = "InfixExpression" =>
        /\ node.Left.k = "InfixExpression" => Ladder(node.Left.Operator) >= Ladder(node.Operator)
        /\ node.Right.k = "InfixExpression" => Ladder(node.Right.Operator) > Ladder(node.Operator)
        /\ GroupedByLadder(node.Left)
        /\ GroupedByLadder(node.Right)

\* the operands and operators of an infix tree, left to right
RECURSIVE InOrder(_)
InOrder(node) ==
    IF node.k = "InfixExpression"
    THEN InOrder(node.Left) \o <<node.Operator>> \o InOrder(node.Right)
    ELSE <<node.Name>>

\* the operands and operators of a chain, as written
ChainWords(ops) ==
    [i \in 1 .. 2 * Len(ops) + 1 |->
        IF i % 2 = 1 THEN ChainOperands[(i + 1) \div 2] ELSE Join(ops[i \div 2])]

\* the expression of the only statement of the program returned
OnlyExpression == parser.program.Statements[1].Expr

\* C24: a chain of operands and binary operators is parsed to one expression statement whose
\* tree keeps the operands and operators in order and groups them by the precedence ladder:
\* higher operators bind tighter, equal ones group left to right
InfixGrouping ==
    parser.pc = "done" =>
        \A ops \in Chains :
            lexer.Input = ChainSource(ops) =>
                /\ parser.program # NoNode
                /\ Len(parser.program.Statements) = 1
                /\ parser.program.Statements[1].k = "ExpressionStatement"
                /\ InOrder(OnlyExpression) = ChainWords(ops)
                /\ GroupedByLadder(OnlyExpression)

\* C24 witness: a - b - c has been parsed as (a - b) - c, and a + b * c as a + (b * c)
LeftToRightAndTighter ==
    /\ parser.pc = "done"
    /\ parser.program # NoNode
    /\ \/ /\ lexer.Input = <<"a", "-", "b", "-", "c", ";">>
          /\ OnlyExpression = Inf(Inf(Id("a"), "-", Id("b")), "-", Id("c"))
       \/ /\ lexer.Input = <<"a", "+", "b", "*", "c", ";">>
          /\ OnlyExpression = Inf(Id("a"), "+", Inf(Id("b"), "*", Id("c")))

\* the prefix operators the ladder puts above the binary ones
TightPrefixOperators == {<<"-">>, <<"!">>, <<"~">>, <<"+", "+">>, <<"-", "-">>}

\* the node of a prefix operator applied to e
PrefixNode(pre, e) ==
    IF pre \in IncDecOperators THEN PreInc(Join(pre), e) ELSE Pre(Join(pre), e)

\* C27: pre a op b is parsed as (pre a) op b, for every prefix operator -, !, ~, ++, -- and
\* every binary operator
PrefixBindsTighter ==
    parser.pc = "done" =>
        \A pre \in TightPrefixOperators, op \in BinaryOperators :
            lexer.Input = PrefixSource(pre, op) =>
                /\ parser.program # NoNode
                /\ parser.program.Statements = <<ES(Inf(PrefixNode(pre, Id("a")), Join(op), Id("b")))>>

\* the fetches for which the lexer reported an error
LexerErrors == {i \in DOMAIN tokens : tokens[i].err # NoErr}

FirstLexerError == tokens[CHOOSE i \in LexerErrors : \A j \in LexerErrors : i <= j].err

\* C29: once the lexer has reported an error for a token the parser fetched, the process is
\* not aborted, that error is the one recorded, no program is returned, and no statement is
\* added to the program
LexerErrorKept ==
    /\ [](LexerErrors # {} =>
            /\ ~panicked
            /\ parser.Err = FirstLexerError
            /\ parser.program = NoNode)
    /\ [][LexerErrors # {} => parser'.Statements = parser.Statements]_vars
=============================================================================
